---- MODULE Spec2Model ----
(***************************************************************************)
(* A model of sidem (dotenv-manager): the .env parser, the selection       *)
(* state machine of the TUI, the serializer of saveFile, and the control   *)
(* loop that arbitrates between external file changes and unsaved edits.   *)
(*                                                                         *)
(* Text is modelled as a sequence of one-character strings, so that the    *)
(* regular expression of the parser and the byte edits of the serializer   *)
(* are computed character by character, as the code computes them.         *)
(* Indices into Go slices (SelectedLineIdx, cursor, valueIndex) keep their *)
(* 0-based values; element i of a Go slice s is s[i + 1] here.             *)
(***************************************************************************)
EXTENDS Integers, Sequences, FiniteSets, Bags, TLC

(***************************************************************************)
(* Characters and the string helpers of the Go standard library.           *)
(***************************************************************************)
NL == "\n"
CR == "\r"
Hash == "#"
Eq == "="
Space == " "
Tab == "\t"
SQuote == "'"
DQuote == "\""
Backslash == "\\"

\* regexp class \s of RE2 (also what strings.TrimSpace trims, within ASCII
\* text that holds no vertical tab)
WhiteSpace == {" ", "\t", "\n", "\f", "\r"}

\* the cutset " \t" of strings.TrimLeft / strings.TrimRight
BlankChars == {" ", "\t"}

UpperCase == {"A", "B", "C", "D", "E", "F", "G", "H", "I", "J", "K", "L", "M", "N", "O", "P", "Q", "R", "S", "T", "U", "V", "W", "X", "Y", "Z"}
LowerCase == {"a", "b", "c", "d", "e", "f", "g", "h", "i", "j", "k", "l", "m", "n", "o", "p", "q", "r", "s", "t", "u", "v", "w", "x", "y", "z"}
Digits == {"0", "1", "2", "3", "4", "5", "6", "7", "8", "9"}

\* [A-Za-z_]
KeyStartChars == UpperCase \cup LowerCase \cup {"_"}

\* [A-Za-z0-9_]
KeyChars == KeyStartChars \cup Digits

Min(S) == CHOOSE x \in S : \A y \in S : x <= y

\* s[i..] of Go, for a 1-based start position
From(s, i) == SubSeq(s, i, Len(s))

\* the first position >= i of s that holds no character of class, Len(s) + 1
\* when there is none: where a greedy class* of the regexp stops
SkipClass(s, i, class) ==
  Min({j \in i..(Len(s) + 1) : j = Len(s) + 1 \/ s[j] \notin class})

HasPrefixAt(s, i, p) ==
  /\ i + Len(p) - 1 <= Len(s)
  /\ SubSeq(s, i, i + Len(p) - 1) = p

\* strings.TrimLeft(s, cutset)
TrimLeft(s, cutset) == From(s, SkipClass(s, 1, cutset))

\* strings.TrimRight(s, cutset)
TrimRight(s, cutset) ==
  LET keep == {j \in 0..Len(s) : j = 0 \/ s[j] \notin cutset}
      last == CHOOSE j \in keep : \A k \in keep : k <= j
  IN SubSeq(s, 1, last)

\* strings.TrimSpace(s)
TrimSpace(s) == TrimRight(TrimLeft(s, WhiteSpace), WhiteSpace)

\* strings.Index(s, c) for a one-character c, as a 1-based position; 0 when
\* c does not occur (Go's -1)
IndexOf(s, c) ==
  IF \E j \in 1..Len(s) : s[j] = c
  THEN Min({j \in 1..Len(s) : s[j] = c})
  ELSE 0

(***************************************************************************)
(* The scanner: bufio.Scanner with bufio.ScanLines, as ParseFile uses it.  *)
(***************************************************************************)
\* dropCR of bufio: one trailing carriage return is dropped
DropCR(s) == IF Len(s) > 0 /\ s[Len(s)] = CR THEN SubSeq(s, 1, Len(s) - 1) ELSE s

\* the tokens bufio.ScanLines yields for text: a line ends at "\n", a final
\* line without "\n" is a token only when it is not empty
RECURSIVE ScanLines(_)
ScanLines(text) ==
  IF Len(text) = 0 THEN << >>
  ELSE LET i == IndexOf(text, NL)
       IN IF i > 0
          THEN << DropCR(SubSeq(text, 1, i - 1)) >> \o ScanLines(From(text, i + 1))
          ELSE << DropCR(text) >>

(***************************************************************************)
(* The parser (internal/parser).                                           *)
(***************************************************************************)
LineTypeBlank == "Blank"
LineTypeComment == "Comment"
LineTypeVariable == "Variable"

ExportWord == <<"e", "x", "p", "o", "r", "t">>

NoMatch == [ok |-> FALSE, hash |-> FALSE, key |-> << >>, rest |-> << >>]

\* the position after an optional single quote at position p
AfterQuote(s, p) == IF p <= Len(s) /\ s[p] = SQuote THEN p + 1 ELSE p

\* \s*=\s*(.*)$ after the key token s[p..r2-1], e being the position after
\* the white space that follows the token
AssignAt(s, p, r2, e) ==
  IF e > Len(s) \/ s[e] # Eq
  THEN NoMatch
  ELSE [ok |-> TRUE, hash |-> FALSE, key |-> SubSeq(s, p, r2 - 1),
        rest |-> From(s, SkipClass(s, e + 1, WhiteSpace))]

\* '?\s*=\s*(.*)$ at position r, where the key characters of the token that
\* starts at p end
KeyEndAt(s, p, r) ==
  AssignAt(s, p, AfterQuote(s, r), SkipClass(s, AfterQuote(s, r), WhiteSpace))

\* [A-Za-z_][A-Za-z0-9_]*'?\s*=\s*(.*)$ at position q of the token that
\* starts at p
KeyCharsAt(s, p, q) ==
  IF q > Len(s) \/ s[q] \notin KeyStartChars
  THEN NoMatch
  ELSE KeyEndAt(s, p, SkipClass(s, q + 1, KeyChars))

\* ('?[A-Za-z_][A-Za-z0-9_]*'?)\s*=\s*(.*)$ matched at position p of s
KeyTokenAt(s, p) == KeyCharsAt(s, p, AfterQuote(s, p))

\* the match a, when it is one, else the match b
FirstMatch(a, b) == IF a.ok THEN a ELSE b

\* (?:export\s+)?('?[A-Za-z_][A-Za-z0-9_]*'?)\s*=\s*(.*)$ at position p2:
\* the optional export word is tried first and given up only when no key
\* token follows it
ExportTokenAt(s, p2) ==
  FirstMatch(
    IF /\ HasPrefixAt(s, p2, ExportWord)
       /\ p2 + Len(ExportWord) <= Len(s)
       /\ s[p2 + Len(ExportWord)] \in WhiteSpace
    THEN KeyTokenAt(s, SkipClass(s, p2 + Len(ExportWord), WhiteSpace))
    ELSE NoMatch,
    KeyTokenAt(s, p2))

\* the match m with its group 1, the comment marker, recorded
WithHash(m, hash) == [m EXCEPT !.hash = m.ok /\ hash]

\* (#)?\s*(?:export\s+)?... at position p0, after the leading white space
HashTokenAt(s, p0) ==
  IF p0 <= Len(s) /\ s[p0] = Hash
  THEN WithHash(ExportTokenAt(s, SkipClass(s, p0 + 1, WhiteSpace)), TRUE)
  ELSE WithHash(ExportTokenAt(s, p0), FALSE)

\* variableRegex.FindStringSubmatch(s): ok when s matches; hash is
\* "matches[1] == #", key is matches[2], rest is matches[3]. Every class* is
\* greedy and no shorter choice of it can lead to a match.
variableRegex(s) == HashTokenAt(s, SkipClass(s, 1, WhiteSpace))

\* keyValidationRegex.MatchString(key): ^[A-Za-z_][A-Za-z0-9_]*$
isValidKey(key) ==
  /\ Len(key) >= 1
  /\ key[1] \in KeyStartChars
  /\ \A j \in 2..Len(key) : key[j] \in KeyChars

\* the scan for the closing quote of a quoted value: the position of the
\* first quote character q after position 1 that is not escaped, 0 if none
RECURSIVE EndQuoteIdx(_, _, _, _)
EndQuoteIdx(input, q, i, escaped) ==
  IF i > Len(input) THEN 0
  ELSE IF input[i] = q /\ ~escaped THEN i
  ELSE EndQuoteIdx(input, q, i + 1, input[i] = Backslash /\ ~escaped)

\* the value of a quoted input, endQuoteIdx being the position of its
\* closing quote
QuotedValue(input, endQuoteIdx) ==
  IF endQuoteIdx = 0
  THEN [err |-> TRUE, value |-> << >>]
  ELSE [err |-> FALSE, value |-> SubSeq(input, 2, endQuoteIdx - 1)]

\* the positions of input that hold a # preceded by a blank or a tab
CommentStarts(input) ==
  {i \in 2..Len(input) : input[i] = Hash /\ input[i - 1] \in BlankChars}

\* the value of an unquoted input: cut before the white space that precedes
\* the first such #, then trimmed on the right
UnquotedValue(input, hits) ==
  [err |-> FALSE,
   value |-> TrimRight(IF hits # {} THEN SubSeq(input, 1, Min(hits) - 2) ELSE input,
                       BlankChars)]

\* parseValueAndComment after its TrimLeft
ValueOf(input) ==
  IF Len(input) = 0 THEN [err |-> FALSE, value |-> << >>]
  ELSE IF input[1] \in {SQuote, DQuote}
  THEN QuotedValue(input, EndQuoteIdx(input, input[1], 2, FALSE))
  ELSE UnquotedValue(input, CommentStarts(input))

\* parseValueAndComment(input): the decoded value, or err for an
\* unterminated quote
parseValueAndComment(input) == ValueOf(TrimLeft(input, BlankChars))

\* a Line of the given type for the scanned line
NewLine(originalLine, lineNumber, type) ==
  [OriginalContent |-> originalLine, Type |-> type, LineNumber |-> lineNumber,
   Key |-> << >>, Value |-> << >>, IsCommentedOut |-> FALSE]

\* the key named by matches[2]: the token without its single quotes when it
\* has both
UnquoteKey(keyRaw) ==
  IF Len(keyRaw) >= 2 /\ keyRaw[1] = SQuote /\ keyRaw[Len(keyRaw)] = SQuote
  THEN SubSeq(keyRaw, 2, Len(keyRaw) - 1)
  ELSE keyRaw

\* faulty variant: a line whose value cannot be parsed is kept as a Comment
\* line and the load goes on
VariableLineLenient(line, key, hash, v) ==
  IF v.err
  THEN [err |-> FALSE, line |-> [line EXCEPT !.IsCommentedOut = hash]]
  ELSE [err |-> FALSE,
        line |-> [line EXCEPT !.Type = LineTypeVariable, !.Key = key,
                              !.Value = v.value, !.IsCommentedOut = hash]]

\* the Variable line of a valid key, v being what parseValueAndComment
\* returned for the rest of the line
VariableLine(line, key, hash, v) ==
  IF v.err
  THEN [err |-> TRUE, line |-> line]
  ELSE [err |-> FALSE,
        line |-> [line EXCEPT !.Type = LineTypeVariable, !.Key = key,
                              !.Value = v.value, !.IsCommentedOut = hash]]

\* faulty variant of the branch for a line that matches variableRegex: the
\* key is not validated
MatchedLineUnvalidated(line, matches, key) ==
  VariableLine(line, key, matches.hash, parseValueAndComment(matches.rest))

\* faulty variant of the branch for a line that matches variableRegex: an
\* invalid key is reported as an error
MatchedLineRejectingKey(line, matches, key) ==
  IF ~isValidKey(key)
  THEN [err |-> TRUE, line |-> line]
  ELSE VariableLine(line, key, matches.hash, parseValueAndComment(matches.rest))

\* the branch of ParseFile's loop for a line that matches variableRegex: a
\* line whose key is invalid becomes a Comment (its IsCommentedOut stays set)
MatchedLine(line, matches, key) ==
  IF ~isValidKey(key)
  THEN [err |-> FALSE, line |-> [line EXCEPT !.IsCommentedOut = matches.hash]]
  ELSE VariableLine(line, key, matches.hash, parseValueAndComment(matches.rest))

\* the line classified by the match of variableRegex
ClassifyLine(line, matches) ==
  IF matches.ok
  THEN MatchedLine(line, matches, UnquoteKey(matches.key))
  ELSE [err |-> FALSE, line |-> line]

\* the Line built for one scanned line (the body of ParseFile's loop up to
\* the grouping), or err when its value cannot be parsed
ParseLine(originalLine, lineNumber) ==
  IF TrimSpace(originalLine) = << >>
  THEN [err |-> FALSE, line |-> NewLine(originalLine, lineNumber, LineTypeBlank)]
  ELSE ClassifyLine(NewLine(originalLine, lineNumber, LineTypeComment),
                    variableRegex(originalLine))

\* the empty ParsedData ParseFile starts from. Lines holds the Line objects;
\* a group's Lines holds pointers to them, modelled as positions in Lines.
EmptyData == [Lines |-> << >>, VariableGroups |-> << >>, GroupOrder |-> << >>]

\* faulty variant of the grouping step: a later line of a key is put before
\* the members its group has
AddLinePrepending(pd, line) ==
  LET ptr == Len(pd.Lines) + 1
      lines == Append(pd.Lines, line)
  IN IF line.Type # LineTypeVariable
     THEN [pd EXCEPT !.Lines = lines]
     ELSE IF line.Key \in DOMAIN pd.VariableGroups
     THEN [pd EXCEPT !.Lines = lines,
                     !.VariableGroups[line.Key].Lines = << ptr >> \o @]
     ELSE [Lines |-> lines,
           VariableGroups |->
             [k \in DOMAIN pd.VariableGroups \cup {line.Key} |->
                IF k = line.Key
                THEN [Key |-> line.Key, Lines |-> << ptr >>,
                      IsSelected |-> FALSE, SelectedLineIdx |-> -1]
                ELSE pd.VariableGroups[k]],
           GroupOrder |-> Append(pd.GroupOrder, line.Key)]

\* the grouping step of ParseFile for one line: the line is appended to
\* Lines and, when it is a Variable, to the group of its key, which is
\* created (and appended to GroupOrder) at the first occurrence of the key
AddLine(pd, line) ==
  LET ptr == Len(pd.Lines) + 1
      lines == Append(pd.Lines, line)
  IN IF line.Type # LineTypeVariable
     THEN [pd EXCEPT !.Lines = lines]
     ELSE IF line.Key \in DOMAIN pd.VariableGroups
     THEN [pd EXCEPT !.Lines = lines,
                     !.VariableGroups[line.Key].Lines = Append(@, ptr)]
     ELSE [Lines |-> lines,
           VariableGroups |->
             [k \in DOMAIN pd.VariableGroups \cup {line.Key} |->
                IF k = line.Key
                THEN [Key |-> line.Key, Lines |-> << ptr >>,
                      IsSelected |-> FALSE, SelectedLineIdx |-> -1]
                ELSE pd.VariableGroups[k]],
           GroupOrder |-> Append(pd.GroupOrder, line.Key)]

\* the counting loop of determineInitialSelectedStates over one group,
\* from member i on, with its early break
RECURSIVE CountUncommented(_, _, _, _)
CountUncommented(pd, group, i, st) ==
  IF i >= Len(group.Lines) THEN st
  ELSE LET line == pd.Lines[group.Lines[i + 1]]
       IN IF line.Type # LineTypeVariable
          THEN CountUncommented(pd, group, i + 1, st)
          ELSE IF st.uncommentedCount > 1
          THEN st
          ELSE CountUncommented(pd, group, i + 1,
                 [firstVarIdx |-> IF st.firstVarIdx = -1 THEN i ELSE st.firstVarIdx,
                  uncommentedCount |->
                    IF line.IsCommentedOut THEN st.uncommentedCount
                    ELSE st.uncommentedCount + 1,
                  firstUncommentedIdx |->
                    IF ~line.IsCommentedOut /\ st.firstUncommentedIdx = -1
                    THEN i ELSE st.firstUncommentedIdx])

\* faulty variant of determineInitialSelectedStates: with several enabled
\* members the member after the first enabled one becomes the selected one
determineSkippingFirst(pd) ==
  [pd EXCEPT !.VariableGroups =
     [k \in DOMAIN pd.VariableGroups |->
        LET group == pd.VariableGroups[k]
            st == CountUncommented(pd, group, 0,
                    [firstVarIdx |-> -1, uncommentedCount |-> 0,
                     firstUncommentedIdx |-> -1])
        IN IF st.uncommentedCount > 0
           THEN [group EXCEPT !.IsSelected = TRUE,
                              !.SelectedLineIdx =
                                 IF st.uncommentedCount > 1
                                 THEN st.firstUncommentedIdx + 1
                                 ELSE st.firstUncommentedIdx]
           ELSE [group EXCEPT !.IsSelected = FALSE,
                              !.SelectedLineIdx = st.firstVarIdx]]]

\* faulty variant of determineInitialSelectedStates: a group with no enabled
\* member remembers no member (selectedIndex -1)
determineForgettingFirst(pd) ==
  [pd EXCEPT !.VariableGroups =
     [k \in DOMAIN pd.VariableGroups |->
        LET group == pd.VariableGroups[k]
            st == CountUncommented(pd, group, 0,
                    [firstVarIdx |-> -1, uncommentedCount |-> 0,
                     firstUncommentedIdx |-> -1])
        IN IF st.uncommentedCount > 0
           THEN [group EXCEPT !.IsSelected = TRUE,
                              !.SelectedLineIdx = st.firstUncommentedIdx]
           ELSE [group EXCEPT !.IsSelected = FALSE,
                              !.SelectedLineIdx = -1]]]

\* determineInitialSelectedStates(groups)
determineInitialSelectedStates(pd) ==
  [pd EXCEPT !.VariableGroups =
     [k \in DOMAIN pd.VariableGroups |->
        LET group == pd.VariableGroups[k]
            st == CountUncommented(pd, group, 0,
                    [firstVarIdx |-> -1, uncommentedCount |-> 0,
                     firstUncommentedIdx |-> -1])
        IN IF st.uncommentedCount > 0
           THEN [group EXCEPT !.IsSelected = TRUE,
                              !.SelectedLineIdx = st.firstUncommentedIdx]
           ELSE [group EXCEPT !.IsSelected = FALSE,
                              !.SelectedLineIdx = st.firstVarIdx]]]

\* ParseFile's loop from line n on, r being what line n was parsed to: an
\* error ends the load
RECURSIVE ParseLines(_, _, _)
ParseStep(lines, n, pd, r) ==
  IF r.err THEN [err |-> TRUE, data |-> EmptyData]
  ELSE ParseLines(lines, n + 1, AddLine(pd, r.line))

ParseLines(lines, n, pd) ==
  IF n > Len(lines) THEN [err |-> FALSE, data |-> determineInitialSelectedStates(pd)]
  ELSE ParseStep(lines, n, pd, ParseLine(lines[n], n))

\* ParseFile on a file that could be opened and read, whose content is text
ParseFile(text) == ParseLines(ScanLines(text), 1, EmptyData)

(***************************************************************************)
(* Faulty variants of reconstructVariableLine, which the properties of the  *)
(* serializer must tell from it.                                           *)
(***************************************************************************)
\* faulty variant: a line that is disabled and stays disabled is rebuilt
\* with a normalised marker instead of being returned as read
reconstructRewritingDisabled(line, group, lineIndexInGroup) ==
  LET originalContent == line.OriginalContent
      trimmed == TrimSpace(originalContent)
      hasPrefix == Len(trimmed) > 0 /\ trimmed[1] = Hash
      shouldBeActive == group.IsSelected /\ group.SelectedLineIdx = lineIndexInGroup
      idx == IndexOf(originalContent, Hash)
      prefix == SubSeq(originalContent, 1, idx - 1)
      suffix == From(originalContent, idx + 1)
      trimmedPrefix == TrimLeft(originalContent, BlankChars)
      indentation == SubSeq(originalContent, 1, Len(originalContent) - Len(trimmedPrefix))
  IN IF shouldBeActive
     THEN IF hasPrefix
          THEN IF idx # 0
               THEN prefix \o (IF Len(suffix) > 0 /\ suffix[1] = Space
                               THEN Tail(suffix) ELSE suffix)
               ELSE originalContent
          ELSE originalContent
     ELSE IF hasPrefix
          THEN indentation \o << Hash, Space >> \o TrimLeft(trimmedPrefix, {Hash, Space})
          ELSE indentation \o << Hash, Space >> \o trimmedPrefix

\* faulty variant: the marker is inserted without the space after it
reconstructMarkerNoSpace(line, group, lineIndexInGroup) ==
  LET originalContent == line.OriginalContent
      trimmed == TrimSpace(originalContent)
      hasPrefix == Len(trimmed) > 0 /\ trimmed[1] = Hash
      shouldBeActive == group.IsSelected /\ group.SelectedLineIdx = lineIndexInGroup
      idx == IndexOf(originalContent, Hash)
      prefix == SubSeq(originalContent, 1, idx - 1)
      suffix == From(originalContent, idx + 1)
      trimmedPrefix == TrimLeft(originalContent, BlankChars)
      indentation == SubSeq(originalContent, 1, Len(originalContent) - Len(trimmedPrefix))
  IN IF shouldBeActive
     THEN IF hasPrefix
          THEN IF idx # 0
               THEN prefix \o (IF Len(suffix) > 0 /\ suffix[1] = Space
                               THEN Tail(suffix) ELSE suffix)
               ELSE originalContent
          ELSE originalContent
     ELSE IF hasPrefix
          THEN originalContent
          ELSE indentation \o << Hash >> \o trimmedPrefix

\* faulty variant: the member at selectedIndex is enabled whether or not the
\* group is selected
reconstructIgnoringSelected(line, group, lineIndexInGroup) ==
  LET originalContent == line.OriginalContent
      trimmed == TrimSpace(originalContent)
      hasPrefix == Len(trimmed) > 0 /\ trimmed[1] = Hash
      shouldBeActive == group.SelectedLineIdx = lineIndexInGroup
      idx == IndexOf(originalContent, Hash)
      prefix == SubSeq(originalContent, 1, idx - 1)
      suffix == From(originalContent, idx + 1)
      trimmedPrefix == TrimLeft(originalContent, BlankChars)
      indentation == SubSeq(originalContent, 1, Len(originalContent) - Len(trimmedPrefix))
  IN IF shouldBeActive
     THEN IF hasPrefix
          THEN IF idx # 0
               THEN prefix \o (IF Len(suffix) > 0 /\ suffix[1] = Space
                               THEN Tail(suffix) ELSE suffix)
               ELSE originalContent
          ELSE originalContent
     ELSE IF hasPrefix
          THEN originalContent
          ELSE indentation \o << Hash, Space >> \o trimmedPrefix

\* faulty variant: enabling a line removes every space after the marker, and
\* disabling a line puts the marker before the indentation
reconstructLosingSpacing(line, group, lineIndexInGroup) ==
  LET originalContent == line.OriginalContent
      trimmed == TrimSpace(originalContent)
      hasPrefix == Len(trimmed) > 0 /\ trimmed[1] = Hash
      shouldBeActive == group.IsSelected /\ group.SelectedLineIdx = lineIndexInGroup
      idx == IndexOf(originalContent, Hash)
      prefix == SubSeq(originalContent, 1, idx - 1)
      suffix == From(originalContent, idx + 1)
  IN IF shouldBeActive
     THEN IF hasPrefix
          THEN IF idx # 0
               THEN prefix \o TrimLeft(suffix, {Space})
               ELSE originalContent
          ELSE originalContent
     ELSE IF hasPrefix
          THEN originalContent
          ELSE << Hash, Space >> \o originalContent

(***************************************************************************)
(* The serializer (saveFile and reconstructVariableLine of the tui).       *)
(***************************************************************************)
\* reconstructVariableLine(line, group, lineIndexInGroup)
reconstructVariableLine(line, group, lineIndexInGroup) ==
  LET originalContent == line.OriginalContent
      trimmed == TrimSpace(originalContent)
      hasPrefix == Len(trimmed) > 0 /\ trimmed[1] = Hash
      shouldBeActive == group.IsSelected /\ group.SelectedLineIdx = lineIndexInGroup
      idx == IndexOf(originalContent, Hash)
      prefix == SubSeq(originalContent, 1, idx - 1)
      suffix == From(originalContent, idx + 1)
      trimmedPrefix == TrimLeft(originalContent, BlankChars)
      indentation == SubSeq(originalContent, 1, Len(originalContent) - Len(trimmedPrefix))
  IN IF shouldBeActive
     THEN IF hasPrefix
          THEN IF idx # 0
               THEN prefix \o (IF Len(suffix) > 0 /\ suffix[1] = Space
                               THEN Tail(suffix) ELSE suffix)
               ELSE originalContent
          ELSE originalContent
     ELSE IF hasPrefix
          THEN originalContent
          ELSE indentation \o << Hash, Space >> \o trimmedPrefix

OrphanedNote == <<"#", " ", "E", "r", "r", "o", "r", ":", " ", "O", "r", "p", "h", "a", "n", "e", "d", " ", "v", "a", "r", "i", "a", "b", "l", "e", " ", "l", "i", "n", "e", "!", " ", "-", ">", " ">>
NotInGroupNote == <<"#", " ", "E", "r", "r", "o", "r", ":", " ", "C", "o", "u", "l", "d", " ", "n", "o", "t", " ", "f", "i", "n", "d", " ", "l", "i", "n", "e", " ", "i", "n", " ", "i", "t", "s", " ", "g", "r", "o", "u", "p", "!", " ", "-", ">", " ">>

\* the position (0-based) of the Line object ptr in group.Lines, -1 when absent
LineIndexInGroup(group, ptr) ==
  IF \E i \in 1..Len(group.Lines) : group.Lines[i] = ptr
  THEN Min({i \in 1..Len(group.Lines) : group.Lines[i] = ptr}) - 1
  ELSE -1

\* what saveFile writes for the Line object at position ptr of data.Lines,
\* without the "\n" that follows it
RenderLine(data, ptr) ==
  LET line == data.Lines[ptr]
  IN IF line.Type # LineTypeVariable
     THEN line.OriginalContent
     ELSE IF line.Key \notin DOMAIN data.VariableGroups
     THEN OrphanedNote \o line.OriginalContent
     ELSE LET group == data.VariableGroups[line.Key]
              lineIndexInGroup == LineIndexInGroup(group, ptr)
          IN IF lineIndexInGroup = -1
             THEN NotInGroupNote \o line.OriginalContent
             ELSE reconstructVariableLine(line, group, lineIndexInGroup)

RECURSIVE RenderFrom(_, _)
RenderFrom(data, ptr) ==
  IF ptr > Len(data.Lines) THEN << >>
  ELSE RenderLine(data, ptr) \o << NL >> \o RenderFrom(data, ptr + 1)

\* faulty variant of saveFile step 3: a newline is appended to the content
\* whether or not it ends with one
SaveContentAlwaysAppending(data) == RenderFrom(data, 1) \o << NL >>

\* the content saveFile hands to os.WriteFile
SaveContent(data) ==
  LET content == RenderFrom(data, 1)
  IN IF Len(content) = 0 \/ content[Len(content)] # NL
     THEN content \o << NL >>
     ELSE content

(***************************************************************************)
(* The row list and the selection state machine (tui).                     *)
(***************************************************************************)
\* the value rows buildListItems appends for a group, from member valueIdx on
RECURSIVE ValueItems(_, _, _, _)
ValueItems(pd, group, groupIdx, valueIdx) ==
  IF valueIdx >= Len(group.Lines) THEN << >>
  ELSE LET line == pd.Lines[group.Lines[valueIdx + 1]]
           rest == ValueItems(pd, group, groupIdx, valueIdx + 1)
       IN IF line.Type = LineTypeVariable
          THEN << [isGroupHeader |-> FALSE, groupIndex |-> groupIdx,
                   valueIndex |-> valueIdx, key |-> << >>, value |-> line.Value,
                   isDisabled |-> ~group.IsSelected,
                   isSelected |-> group.SelectedLineIdx = valueIdx] >> \o rest
          ELSE rest

RECURSIVE GroupItems(_, _)
GroupItems(pd, groupIdx) ==
  IF groupIdx >= Len(pd.GroupOrder) THEN << >>
  ELSE LET group == pd.VariableGroups[pd.GroupOrder[groupIdx + 1]]
       IN << [isGroupHeader |-> TRUE, groupIndex |-> groupIdx, valueIndex |-> -1,
              key |-> group.Key, value |-> << >>,
              isDisabled |-> ~group.IsSelected,
              isSelected |-> group.IsSelected] >>
          \o ValueItems(pd, group, groupIdx, 0)
          \o GroupItems(pd, groupIdx + 1)

\* buildListItems(): one row per group header, one row per member
buildListItems(pd) == GroupItems(pd, 0)

\* the clamp of ensureCursorVisible (its scrolling of the viewport is
\* presentation and is left out)
ensureCursorVisible(pd, c) ==
  LET listLen == Len(buildListItems(pd))
  IN IF c < 0 THEN 0 ELSE IF c >= listLen THEN listLen - 1 ELSE c

(***************************************************************************)
(* Faulty variants of toggleSelection, which the properties of the          *)
(* selection state machine must tell from it.                              *)
(***************************************************************************)
\* faulty variant: the space key on a header switches every group to the
\* flipped state of the group of the row
toggleSelectionEveryGroup(pd, c) ==
  LET listItems == buildListItems(pd)
      same == [data |-> pd, changed |-> FALSE]
  IN IF c < 0 \/ c >= Len(listItems) THEN same
     ELSE LET selectedItem == listItems[c + 1]
          IN IF selectedItem.groupIndex < 0 \/ selectedItem.groupIndex >= Len(pd.GroupOrder)
             THEN same
             ELSE LET groupKey == pd.GroupOrder[selectedItem.groupIndex + 1]
                      group == pd.VariableGroups[groupKey]
                  IN IF groupKey \notin DOMAIN pd.VariableGroups THEN same
                     ELSE IF selectedItem.isGroupHeader
                     THEN [data |-> [pd EXCEPT !.VariableGroups =
                                        [k \in DOMAIN @ |-> [@[k] EXCEPT !.IsSelected = ~group.IsSelected]]],
                           changed |-> TRUE]
                     ELSE IF selectedItem.valueIndex < 0 \/ selectedItem.valueIndex >= Len(group.Lines)
                     THEN same
                     ELSE IF group.IsSelected
                     THEN IF group.SelectedLineIdx # selectedItem.valueIndex
                          THEN [data |-> [pd EXCEPT !.VariableGroups[groupKey].SelectedLineIdx =
                                                       selectedItem.valueIndex],
                                changed |-> TRUE]
                          ELSE same
                     ELSE [data |-> [pd EXCEPT !.VariableGroups[groupKey].IsSelected = TRUE,
                                               !.VariableGroups[groupKey].SelectedLineIdx =
                                                  selectedItem.valueIndex],
                           changed |-> TRUE]

\* faulty variant: the space key on a header also resets selectedIndex to
\* the first member
toggleSelectionResetIndex(pd, c) ==
  LET listItems == buildListItems(pd)
      same == [data |-> pd, changed |-> FALSE]
  IN IF c < 0 \/ c >= Len(listItems) THEN same
     ELSE LET selectedItem == listItems[c + 1]
          IN IF selectedItem.groupIndex < 0 \/ selectedItem.groupIndex >= Len(pd.GroupOrder)
             THEN same
             ELSE LET groupKey == pd.GroupOrder[selectedItem.groupIndex + 1]
                      group == pd.VariableGroups[groupKey]
                  IN IF groupKey \notin DOMAIN pd.VariableGroups THEN same
                     ELSE IF selectedItem.isGroupHeader
                     THEN [data |-> [pd EXCEPT !.VariableGroups[groupKey].IsSelected = ~@,
                                               !.VariableGroups[groupKey].SelectedLineIdx = 0],
                           changed |-> TRUE]
                     ELSE IF selectedItem.valueIndex < 0 \/ selectedItem.valueIndex >= Len(group.Lines)
                     THEN same
                     ELSE IF group.IsSelected
                     THEN IF group.SelectedLineIdx # selectedItem.valueIndex
                          THEN [data |-> [pd EXCEPT !.VariableGroups[groupKey].SelectedLineIdx =
                                                       selectedItem.valueIndex],
                                changed |-> TRUE]
                          ELSE same
                     ELSE [data |-> [pd EXCEPT !.VariableGroups[groupKey].IsSelected = TRUE,
                                               !.VariableGroups[groupKey].SelectedLineIdx =
                                                  selectedItem.valueIndex],
                           changed |-> TRUE]

\* faulty variant: the space key on a member of a group that is off switches
\* the group on with the member it remembered
toggleSelectionKeepsIndex(pd, c) ==
  LET listItems == buildListItems(pd)
      same == [data |-> pd, changed |-> FALSE]
  IN IF c < 0 \/ c >= Len(listItems) THEN same
     ELSE LET selectedItem == listItems[c + 1]
          IN IF selectedItem.groupIndex < 0 \/ selectedItem.groupIndex >= Len(pd.GroupOrder)
             THEN same
             ELSE LET groupKey == pd.GroupOrder[selectedItem.groupIndex + 1]
                      group == pd.VariableGroups[groupKey]
                  IN IF groupKey \notin DOMAIN pd.VariableGroups THEN same
                     ELSE IF selectedItem.isGroupHeader
                     THEN [data |-> [pd EXCEPT !.VariableGroups[groupKey].IsSelected = ~@],
                           changed |-> TRUE]
                     ELSE IF selectedItem.valueIndex < 0 \/ selectedItem.valueIndex >= Len(group.Lines)
                     THEN same
                     ELSE IF group.IsSelected
                     THEN IF group.SelectedLineIdx # selectedItem.valueIndex
                          THEN [data |-> [pd EXCEPT !.VariableGroups[groupKey].SelectedLineIdx =
                                                       selectedItem.valueIndex],
                                changed |-> TRUE]
                          ELSE same
                     ELSE [data |-> [pd EXCEPT !.VariableGroups[groupKey].IsSelected = TRUE],
                           changed |-> TRUE]

\* faulty variant: the space key on the member already chosen reports a
\* change
toggleSelectionAlwaysChanged(pd, c) ==
  LET listItems == buildListItems(pd)
      same == [data |-> pd, changed |-> FALSE]
  IN IF c < 0 \/ c >= Len(listItems) THEN same
     ELSE LET selectedItem == listItems[c + 1]
          IN IF selectedItem.groupIndex < 0 \/ selectedItem.groupIndex >= Len(pd.GroupOrder)
             THEN same
             ELSE LET groupKey == pd.GroupOrder[selectedItem.groupIndex + 1]
                      group == pd.VariableGroups[groupKey]
                  IN IF groupKey \notin DOMAIN pd.VariableGroups THEN same
                     ELSE IF selectedItem.isGroupHeader
                     THEN [data |-> [pd EXCEPT !.VariableGroups[groupKey].IsSelected = ~@],
                           changed |-> TRUE]
                     ELSE IF selectedItem.valueIndex < 0 \/ selectedItem.valueIndex >= Len(group.Lines)
                     THEN same
                     ELSE IF group.IsSelected
                     THEN IF group.SelectedLineIdx # selectedItem.valueIndex
                          THEN [data |-> [pd EXCEPT !.VariableGroups[groupKey].SelectedLineIdx =
                                                       selectedItem.valueIndex],
                                changed |-> TRUE]
                          ELSE [data |-> pd, changed |-> TRUE]
                     ELSE [data |-> [pd EXCEPT !.VariableGroups[groupKey].IsSelected = TRUE,
                                               !.VariableGroups[groupKey].SelectedLineIdx =
                                                  selectedItem.valueIndex],
                           changed |-> TRUE]

\* faulty variant: choosing another member of a selected group moves
\* selectedIndex without reporting a change
toggleSelectionSilentChoice(pd, c) ==
  LET listItems == buildListItems(pd)
      same == [data |-> pd, changed |-> FALSE]
  IN IF c < 0 \/ c >= Len(listItems) THEN same
     ELSE LET selectedItem == listItems[c + 1]
          IN IF selectedItem.groupIndex < 0 \/ selectedItem.groupIndex >= Len(pd.GroupOrder)
             THEN same
             ELSE LET groupKey == pd.GroupOrder[selectedItem.groupIndex + 1]
                      group == pd.VariableGroups[groupKey]
                  IN IF groupKey \notin DOMAIN pd.VariableGroups THEN same
                     ELSE IF selectedItem.isGroupHeader
                     THEN [data |-> [pd EXCEPT !.VariableGroups[groupKey].IsSelected = ~@],
                           changed |-> TRUE]
                     ELSE IF selectedItem.valueIndex < 0 \/ selectedItem.valueIndex >= Len(group.Lines)
                     THEN same
                     ELSE IF group.IsSelected
                     THEN [data |-> [pd EXCEPT !.VariableGroups[groupKey].SelectedLineIdx =
                                                  selectedItem.valueIndex],
                           changed |-> FALSE]
                     ELSE [data |-> [pd EXCEPT !.VariableGroups[groupKey].IsSelected = TRUE,
                                               !.VariableGroups[groupKey].SelectedLineIdx =
                                                  selectedItem.valueIndex],
                           changed |-> TRUE]

\* faulty variant: choosing a member stores the row of the cursor, not the
\* index of the member in its group, as selectedIndex
toggleSelectionRowAsIndex(pd, c) ==
  LET listItems == buildListItems(pd)
      same == [data |-> pd, changed |-> FALSE]
  IN IF c < 0 \/ c >= Len(listItems) THEN same
     ELSE LET selectedItem == listItems[c + 1]
          IN IF selectedItem.groupIndex < 0 \/ selectedItem.groupIndex >= Len(pd.GroupOrder)
             THEN same
             ELSE LET groupKey == pd.GroupOrder[selectedItem.groupIndex + 1]
                      group == pd.VariableGroups[groupKey]
                  IN IF groupKey \notin DOMAIN pd.VariableGroups THEN same
                     ELSE IF selectedItem.isGroupHeader
                     THEN [data |-> [pd EXCEPT !.VariableGroups[groupKey].IsSelected = ~@],
                           changed |-> TRUE]
                     ELSE IF selectedItem.valueIndex < 0 \/ selectedItem.valueIndex >= Len(group.Lines)
                     THEN same
                     ELSE IF group.IsSelected
                     THEN IF group.SelectedLineIdx # c
                          THEN [data |-> [pd EXCEPT !.VariableGroups[groupKey].SelectedLineIdx = c],
                                changed |-> TRUE]
                          ELSE same
                     ELSE [data |-> [pd EXCEPT !.VariableGroups[groupKey].IsSelected = TRUE,
                                               !.VariableGroups[groupKey].SelectedLineIdx = c],
                           changed |-> TRUE]

\* toggleSelection() for the cursor at row c: the ParsedData after the
\* action and whether it changed
toggleSelection(pd, c) ==
  LET listItems == buildListItems(pd)
      same == [data |-> pd, changed |-> FALSE]
  IN IF c < 0 \/ c >= Len(listItems) THEN same
     ELSE LET selectedItem == listItems[c + 1]
          IN IF selectedItem.groupIndex < 0 \/ selectedItem.groupIndex >= Len(pd.GroupOrder)
             THEN same
             ELSE LET groupKey == pd.GroupOrder[selectedItem.groupIndex + 1]
                      group == pd.VariableGroups[groupKey]
                  IN IF groupKey \notin DOMAIN pd.VariableGroups THEN same
                     ELSE IF selectedItem.isGroupHeader
                     THEN [data |-> [pd EXCEPT !.VariableGroups[groupKey].IsSelected = ~@],
                           changed |-> TRUE]
                     ELSE IF selectedItem.valueIndex < 0 \/ selectedItem.valueIndex >= Len(group.Lines)
                     THEN same
                     ELSE IF group.IsSelected
                     THEN IF group.SelectedLineIdx # selectedItem.valueIndex
                          THEN [data |-> [pd EXCEPT !.VariableGroups[groupKey].SelectedLineIdx =
                                                       selectedItem.valueIndex],
                                changed |-> TRUE]
                          ELSE same
                     ELSE [data |-> [pd EXCEPT !.VariableGroups[groupKey].IsSelected = TRUE,
                                               !.VariableGroups[groupKey].SelectedLineIdx =
                                                  selectedItem.valueIndex],
                           changed |-> TRUE]

(***************************************************************************)
(* State.                                                                  *)
(*                                                                         *)
(* fnDisk .. fnRound: one document taken through load, edit, save and      *)
(* reload with nothing else running (specifications SpecDoc, SpecTrip).    *)
(***************************************************************************)
VARIABLES
  fnDisk,    \* the content of the file
  fnSrc,     \* the content the current document was parsed from
  fnData,    \* the ParsedData
  fnEdited,  \* Model.modified: a selection changed since the load
  fnLast,    \* the row of the last space key, -1 when none since the load
  fnPc,      \* "start", "editing", "saved", or "failed" (ParseFile's error)
  fnFirst,   \* the content of the file when the program was started
  fnRound,   \* the reloads of the file so far
  disk,                 \* the content of the file at Model.filePath
  bak,                  \* the content of the sibling .bak file
  parsedData,           \* Model.parsedData
  cursor,               \* Model.cursor
  modified,             \* Model.modified
  quitting,             \* Model.quitting: tea.Quit was returned
  showQuitPrompt,       \* Model.showQuitPrompt
  quittingAfterSave,    \* Model.quittingAfterSave
  statusMessage,        \* Model.statusMessage
  showReloadPrompt,     \* Model.showReloadPrompt
  pendingReloadAction,  \* Model.pendingReloadAction # nil
  tasks,                \* the bag of running save and reload commands
  inbox,                \* the bag of messages sent to Update, not yet processed
  ticks,                \* the texts of the tea.Tick commands that are running
  wpc,                  \* where main and the goroutine of Watcher.Start are
  timer,                \* the ticks debounceTimer has left, 0 when it is not armed
  senders,              \* timer callbacks blocked in w.Events <- FileChangedMsg{}
  watchCmds,            \* WatchFileCmd commands blocked in their select
  ctxCancelled,         \* watcherCancel() was called
  panicked,             \* the process died of a runtime panic
  keys,                 \* the keys pressed so far
  writes                \* the writes of other processes so far

fnVars == << fnDisk, fnSrc, fnData, fnEdited, fnLast, fnPc, fnFirst, fnRound >>

fileVars == << disk, bak >>

promptVars == << showQuitPrompt, quittingAfterSave, showReloadPrompt, pendingReloadAction >>

watcherVars == << wpc, timer, senders, watchCmds >>

countVars == << keys, writes >>

tuiVars == << disk, bak, parsedData, cursor, modified, quitting, showQuitPrompt,
              quittingAfterSave, statusMessage, showReloadPrompt, pendingReloadAction,
              tasks, inbox, ticks, wpc, timer, senders, watchCmds, ctxCancelled,
              panicked, keys, writes >>

vars == << fnVars, tuiVars >>

(***************************************************************************)
(* The inputs of SpecDoc.                                                  *)
(***************************************************************************)
\* the most lines of a file built from CoreLines
MaxLines == 3

\* the most lines of a file built from CoreLines and EdgeLines together
MaxEdgeLines == 2

\* ordinary lines: variables enabled and disabled, with and without a space
\* after the marker, indented, of two keys; a blank line
CoreLines == {<<"A", "=", "1">>,
              <<"#", "A", "=", "2">>,
              <<"#", " ", "A", "=", "3">>,
              <<" ", " ", "B", "=", "x">>,
              <<>>,
              <<" ", "#", "B", "=", "y">>}

\* lines at the edges of the dialect: a comment, an invalid key, a key with
\* one quote, an unterminated quote, two spaces after the marker, the export
\* keyword, an inline comment right after "=", a quoted key with a quoted
\* value, a commented-out line whose single-quoted value has an escaped
\* quote and a double quote but no closing quote, a double-quoted value
\* with an escaped quote in it, an unquoted value with an inline comment
EdgeLines == {<<"#", " ", "n", "o", "t", "e">>,
              <<"1", "B", "A", "D", "=", "v">>,
              <<"'", "A", "=", "5">>,
              <<"A", "=", "\"", "6">>,
              <<"#", " ", " ", "A", "=", "7">>,
              <<"e", "x", "p", "o", "r", "t", " ", "A", "=", "8">>,
              <<"A", "=", " ", "#", "n">>,
              <<"'", "B", "'", " ", "=", " ", "\"", "z", "\"", " ", "#", " ", "c">>,
              <<"#", "A", "=", "'", "\\", "'", "\"">>,
              <<"A", "=", "\"", "\\", "\"", "\"">>,
              <<"A", "=", "v", " ", "#", "c">>}

\* the ordinary lines the lines of EdgeLines are put together with
MixLines == {<<"A", "=", "1">>,
             <<"#", "A", "=", "2">>}

\* how the last line of an input ends: with "\n", with nothing, with "\r\n"
LastTerminators == {<< NL >>, << >>, << CR, NL >>}

RECURSIVE JoinLines(_, _)
JoinLines(lines, lastTerm) ==
  IF Len(lines) = 0 THEN << >>
  ELSE IF Len(lines) = 1 THEN lines[1] \o lastTerm
  ELSE lines[1] \o << NL >> \o JoinLines(Tail(lines), lastTerm)

LineSeqs(pool, n) == UNION {[1..k -> pool] : k \in 0..n}

\* the file of the scenario of the specification: FOO=1, #FOO=2, BAR=x
ScenarioText == <<"F", "O", "O", "=", "1", "\n", "#", "F", "O", "O", "=", "2", "\n", "B", "A", "R", "=", "x", "\n">>

\* the files of SpecDoc: ordinary lines with every end of the last line,
\* lines of the edges among ordinary ones, and the scenario
FnTexts ==
  {JoinLines(ls, t) : ls \in LineSeqs(CoreLines, MaxLines), t \in LastTerminators}
  \cup {JoinLines(ls, << NL >>) : ls \in LineSeqs(EdgeLines \cup MixLines, MaxEdgeLines)}
  \cup {ScenarioText}

\* the rows of the current document
FnRows == 0..(Len(buildListItems(fnData)) - 1)

(***************************************************************************)
(* SpecDoc: load, edit, save.                                              *)
(***************************************************************************)
\* no .bak file
NoBackup == << "none" >>

\* the variables of the control loop, at rest while SpecDoc runs
TuiIdle ==
  /\ disk = << >> /\ bak = NoBackup
  /\ parsedData = EmptyData /\ cursor = 0
  /\ modified = FALSE /\ quitting = FALSE
  /\ showQuitPrompt = FALSE /\ quittingAfterSave = FALSE
  /\ statusMessage = << >>
  /\ showReloadPrompt = FALSE /\ pendingReloadAction = FALSE
  /\ tasks = EmptyBag /\ inbox = EmptyBag /\ ticks = {}
  /\ wpc = "idle" /\ timer = 0 /\ senders = 0 /\ watchCmds = 0
  /\ ctxCancelled = FALSE /\ panicked = FALSE
  /\ keys = 0 /\ writes = 0

InitDoc ==
  /\ TuiIdle
  /\ fnDisk \in FnTexts
  /\ fnSrc = << >>
  /\ fnData = EmptyData
  /\ fnEdited = FALSE
  /\ fnLast = -1
  /\ fnPc = "start"
  /\ fnFirst = fnDisk
  /\ fnRound = 0

\* the document and the position after ParseFile returned r
FnLoaded(r) ==
  /\ fnData' = r.data
  /\ fnPc' = IF r.err THEN "failed" ELSE "editing"

\* ParseFile of the file at startup
FnLoad ==
  /\ fnPc = "start"
  /\ FnLoaded(ParseFile(fnDisk))
  /\ fnSrc' = fnDisk
  /\ fnEdited' = FALSE
  /\ fnLast' = -1
  /\ UNCHANGED << fnDisk, fnFirst, fnRound, tuiVars >>

\* the document and the modified flag after toggleSelection returned r
FnToggled(r) ==
  /\ fnData' = r.data
  /\ fnEdited' = (fnEdited \/ r.changed)

\* the space key with the cursor at row c (Update, case " ")
FnSpace(c) ==
  /\ fnPc = "editing"
  /\ FnToggled(toggleSelection(fnData, c))
  /\ fnLast' = c
  /\ fnPc' = "editing"
  /\ UNCHANGED << fnDisk, fnSrc, fnFirst, fnRound, tuiVars >>

\* saveFile of the document as it is, the write succeeding
FnSave ==
  /\ fnPc = "editing"
  /\ fnDisk' = SaveContent(fnData)
  /\ fnPc' = "saved"
  /\ UNCHANGED << fnSrc, fnData, fnEdited, fnLast, fnFirst, fnRound, tuiVars >>

NextDoc ==
  \/ FnLoad
  \/ \E c \in FnRows : FnSpace(c)
  \/ FnSave

SpecDoc == InitDoc /\ [][NextDoc]_vars

(***************************************************************************)
(* SpecTrip: SpecDoc with the reload of the file a save wrote, after which *)
(* the document is edited and saved again.                                 *)
(***************************************************************************)
\* the most reloads of the file
MaxReloads == 1

\* the session after reloadFileCmd returned r for the file the save wrote:
\* case fileReloadedMsg replaces the document and the session is
\* unmodified; on ParseFile's error the document stays and the model of the
\* session ends
FnReloaded(r) ==
  /\ fnData' = IF r.err THEN fnData ELSE r.data
  /\ fnPc' = IF r.err THEN "failed" ELSE "editing"
  /\ fnSrc' = IF r.err THEN fnSrc ELSE fnDisk
  /\ fnEdited' = (r.err /\ fnEdited)

\* the reload of the file after a save
FnReload ==
  /\ fnPc = "saved" /\ fnRound < MaxReloads
  /\ FnReloaded(ParseFile(fnDisk))
  /\ fnLast' = -1
  /\ fnRound' = fnRound + 1
  /\ UNCHANGED << fnDisk, fnFirst, tuiVars >>

NextTrip ==
  \/ FnLoad
  \/ \E c \in FnRows : FnSpace(c)
  \/ FnSave
  \/ FnReload

SpecTrip == InitDoc /\ [][NextTrip]_vars

(***************************************************************************)
(* Spec: the control loop (Update), the save and reload commands and the   *)
(* watcher, over a small file.                                             *)
(*                                                                         *)
(* Commands run in goroutines of their own and report with a message;      *)
(* Update processes one message at a time, in whatever order the messages  *)
(* of different goroutines arrive.  The viewport and focusIndex serve the  *)
(* view only and are left out.                                             *)
(***************************************************************************)
\* the most commands running plus messages waiting at one time
MaxInFlight == 2

\* the most WatchFileCmd commands blocked at one time
MaxWatchCmds == 2

\* the most timer callbacks blocked in their send at one time
MaxSenders == 1

\* the most keys the user presses
MaxKeys == 3

\* the most writes of other processes to the file
MaxExternalWrites == 2

\* the most tea.Tick commands running at one time
MaxTicks == 1

\* the most answers to a prompt the user gives after the keys of MaxKeys
MaxAnswers == 1

\* the ticks of the clock that debounceDuration lasts
DebounceTicks == 2

\* a group of two members, the first enabled
TextTwo == <<"A", "=", "1", "\n", "#", "A", "=", "2", "\n">>

\* one member, enabled
TextOne == <<"A", "=", "3", "\n">>

\* no variable at all: a document with no rows
TextNote == <<"#", " ", "n", "o", "t", "e", "\n">>

\* an unterminated quote: ParseFile returns an error
TextBad == <<"A", "=", "\"", "6", "\n">>

\* the files the program is started on (main exits when ParseFile fails)
StartTexts == {TextTwo, TextNote}

\* what another process writes to the file
ExternalTexts == {TextOne, TextBad}

\* messages to Update. by names the key that started the save command a
\* saveSuccessMsg comes from: the code keeps no such record, the two
\* messages are the same value to it
Msg(type, err, data) == [type |-> type, err |-> err, data |-> data, by |-> ""]

SaveSuccessMsg == [Msg("saveSuccessMsg", "", EmptyData) EXCEPT !.by = "ctrl+s"]

QuitSaveSuccessMsg == [Msg("saveSuccessMsg", "", EmptyData) EXCEPT !.by = "y"]

ErrMsg(err) == Msg("errMsg", err, EmptyData)

FileChangedMsg == Msg("FileChangedMsg", "", EmptyData)

WatcherErrMsg == Msg("WatcherErrMsg", "failed to add file to watcher", EmptyData)

ConfirmedReloadMsg == Msg("confirmedReloadMsg", "", EmptyData)

FileReloadedMsg(pd) == Msg("fileReloadedMsg", "", pd)

\* status messages, as the pieces fmt.Sprintf puts together
NoStatus == << >>

StatusSaving == << "Saving..." >>

StatusSaved == << "Saved successfully!" >>

StatusSavedQuitting == << "Saved successfully! Quitting..." >>

StatusNoChanges == << "No changes to save." >>

StatusReloadingChanged == << "File changed, reloading..." >>

StatusReloading == << "Reloading..." >>

StatusReloaded == << "File reloaded successfully." >>

StatusKept == << "Kept local changes. File change ignored." >>

StatusNoPending == << "Error: ", "No reload action pending." >>

StatusCopied == << "Copied to clipboard!" >>

StatusEmptyLine == << "The selected line is empty." >>

StatusCopyError == << "Error copying: ", "clipboard unavailable" >>

StatusError(err) == << "Error: ", err >>

StatusWatcherError(err) == << "Watcher Error: ", err >>

\* strings.HasPrefix(m.statusMessage, "Error:")
HasErrorPrefix(status) == Len(status) > 0 /\ status[1] = "Error: "

\* the start of case tea.KeyMsg: a status that is no error is cleared
StatusAfterKey ==
  IF statusMessage # NoStatus /\ ~HasErrorPrefix(statusMessage) THEN NoStatus
  ELSE statusMessage

\* commands: a save holds the pointer m.parsedData of the time of saveCmd();
\* live says that pointer is still Model.parsedData, and data is the
\* document it points to once Model.parsedData was replaced; by names the
\* key that started the command
SaveTask == [kind |-> "save", pc |-> "backup", i |-> 0, buf |-> << >>,
             live |-> TRUE, data |-> EmptyData, by |-> "ctrl+s"]

\* the save command of the answer yes to the quit prompt
QuitSaveTask == [SaveTask EXCEPT !.by = "y"]

ReloadTask == [kind |-> "reload", pc |-> "parse", i |-> 0, buf |-> << >>,
               live |-> FALSE, data |-> EmptyData, by |-> ""]

\* the message a save command ends with when its write succeeded
SaveSuccessOf(t) == IF t.by = "y" THEN QuitSaveSuccessMsg ELSE SaveSuccessMsg

Put(bag, e) == bag (+) SetToBag({e})

Drop(bag, e) == bag (-) SetToBag({e})

InFlight == BagCardinality(tasks) + BagCardinality(inbox)

\* watcher.New() returned a watcher and p.Run() was called
Started == wpc \notin {"new", "exit"}

\* Update is being called
Running == Started /\ ~quitting /\ ~panicked

\* a tea.Tick command with this text can be started (one running with the
\* same text stands for both)
CanTick(text) == text \in ticks \/ Cardinality(ticks) < MaxTicks

\* the variables of SpecDoc, at rest while Spec runs
FnIdle ==
  /\ fnDisk = << >> /\ fnSrc = << >> /\ fnData = EmptyData
  /\ fnEdited = FALSE /\ fnLast = -1 /\ fnPc = "idle"
  /\ fnFirst = << >> /\ fnRound = 0

\* runApplication after ParseFile returned the document, before
\* watcher.New()
Init ==
  /\ FnIdle
  /\ disk \in StartTexts /\ bak = NoBackup
  /\ parsedData = ParseFile(disk).data /\ cursor = 0
  /\ modified = FALSE /\ quitting = FALSE
  /\ showQuitPrompt = FALSE /\ quittingAfterSave = FALSE
  /\ statusMessage = NoStatus
  /\ showReloadPrompt = FALSE /\ pendingReloadAction = FALSE
  /\ tasks = EmptyBag /\ inbox = EmptyBag /\ ticks = {}
  /\ wpc = "new" /\ timer = 0 /\ senders = 0 /\ watchCmds = 0
  /\ ctxCancelled = FALSE /\ panicked = FALSE
  /\ keys = 0 /\ writes = 0

(***************************************************************************)
(* Update, one action per case of its switch.                              *)
(***************************************************************************)
\* case tea.WindowSizeMsg (the terminal sends it at start and on resize)
HandleWindowSize ==
  /\ Running
  /\ cursor' = ensureCursorVisible(parsedData, cursor)
  /\ UNCHANGED << countVars, fnVars, fileVars, parsedData, modified, quitting, promptVars,
                  statusMessage, tasks, inbox, ticks, watcherVars, ctxCancelled,
                  panicked >>

\* case saveSuccessMsg
HandleSaveSuccess(m) ==
  /\ Running
  /\ BagIn(m, inbox)
  /\ m.type = "saveSuccessMsg"
  /\ quittingAfterSave \/ CanTick(StatusSaved)
  /\ inbox' = Drop(inbox, m)
  /\ modified' = FALSE
  /\ quitting' = quittingAfterSave
  /\ quittingAfterSave' = FALSE
  /\ statusMessage' = IF quittingAfterSave THEN StatusSavedQuitting ELSE StatusSaved
  /\ ticks' = IF quittingAfterSave THEN ticks ELSE ticks \cup {StatusSaved}
  /\ ctxCancelled' = (ctxCancelled \/ quittingAfterSave)
  /\ UNCHANGED << countVars, fnVars, fileVars, parsedData, cursor, showQuitPrompt,
                  showReloadPrompt, pendingReloadAction, tasks, watcherVars,
                  panicked >>

\* faulty variant of case errMsg: the error of a command also clears the
\* modified flag
HandleErrMsgClearsModified(m) ==
  /\ Running
  /\ BagIn(m, inbox)
  /\ m.type = "errMsg"
  /\ inbox' = Drop(inbox, m)
  /\ statusMessage' = StatusError(m.err)
  /\ quittingAfterSave' = FALSE
  /\ showQuitPrompt' = FALSE
  /\ showReloadPrompt' = FALSE
  /\ modified' = FALSE
  /\ UNCHANGED << countVars, fnVars, fileVars, parsedData, cursor, quitting,
                  pendingReloadAction, tasks, ticks, watcherVars, ctxCancelled,
                  panicked >>

\* case errMsg
HandleErrMsg(m) ==
  /\ Running
  /\ BagIn(m, inbox)
  /\ m.type = "errMsg"
  /\ inbox' = Drop(inbox, m)
  /\ statusMessage' = StatusError(m.err)
  /\ quittingAfterSave' = FALSE
  /\ showQuitPrompt' = FALSE
  /\ showReloadPrompt' = FALSE
  /\ UNCHANGED << countVars, fnVars, fileVars, parsedData, cursor, modified, quitting,
                  pendingReloadAction, tasks, ticks, watcherVars, ctxCancelled,
                  panicked >>

\* case clearStatusMsg, sent by the tick started with the text originalMsg
HandleClearStatus(originalMsg) ==
  /\ Running
  /\ originalMsg \in ticks
  /\ ticks' = ticks \ {originalMsg}
  /\ statusMessage' = IF statusMessage = originalMsg THEN NoStatus ELSE statusMessage
  /\ UNCHANGED << countVars, fnVars, fileVars, parsedData, cursor, modified, quitting,
                  promptVars, tasks, inbox, watcherVars, ctxCancelled, panicked >>

\* faulty variant of case watcher.FileChangedMsg: a notification that finds
\* the conflict prompt shown also starts a reload
HandleFileChangedQueueing ==
  /\ Running
  /\ BagIn(FileChangedMsg, inbox)
  /\ watchCmds < MaxWatchCmds
  /\ inbox' = Drop(inbox, FileChangedMsg)
  /\ IF modified
     THEN /\ showReloadPrompt' = TRUE
          /\ pendingReloadAction' = TRUE
          /\ statusMessage' = NoStatus
          /\ tasks' = IF showReloadPrompt THEN Put(tasks, ReloadTask) ELSE tasks
     ELSE /\ statusMessage' = StatusReloadingChanged
          /\ tasks' = Put(tasks, ReloadTask)
          /\ UNCHANGED << showReloadPrompt, pendingReloadAction >>
  /\ watchCmds' = watchCmds + 1
  /\ UNCHANGED << countVars, fnVars, fileVars, parsedData, cursor, modified, quitting,
                  showQuitPrompt, quittingAfterSave, ticks, wpc, timer, senders,
                  ctxCancelled, panicked >>

\* faulty variant of case watcher.FileChangedMsg: no WatchFileCmd is started
\* for the next notification
HandleFileChangedOnce ==
  /\ Running
  /\ BagIn(FileChangedMsg, inbox)
  /\ inbox' = Drop(inbox, FileChangedMsg)
  /\ IF modified
     THEN /\ showReloadPrompt' = TRUE
          /\ pendingReloadAction' = TRUE
          /\ statusMessage' = NoStatus
          /\ tasks' = tasks
     ELSE /\ statusMessage' = StatusReloadingChanged
          /\ tasks' = Put(tasks, ReloadTask)
          /\ UNCHANGED << showReloadPrompt, pendingReloadAction >>
  /\ UNCHANGED << countVars, fnVars, fileVars, parsedData, cursor, modified, quitting,
                  showQuitPrompt, quittingAfterSave, ticks, watcherVars,
                  ctxCancelled, panicked >>

\* case watcher.FileChangedMsg
HandleFileChanged ==
  /\ Running
  /\ BagIn(FileChangedMsg, inbox)
  /\ watchCmds < MaxWatchCmds
  /\ inbox' = Drop(inbox, FileChangedMsg)
  /\ IF modified
     THEN /\ showReloadPrompt' = TRUE
          /\ pendingReloadAction' = TRUE
          /\ statusMessage' = NoStatus
          /\ tasks' = tasks
     ELSE /\ statusMessage' = StatusReloadingChanged
          /\ tasks' = Put(tasks, ReloadTask)
          /\ UNCHANGED << showReloadPrompt, pendingReloadAction >>
  /\ watchCmds' = watchCmds + 1
  /\ UNCHANGED << countVars, fnVars, fileVars, parsedData, cursor, modified, quitting,
                  showQuitPrompt, quittingAfterSave, ticks, wpc, timer, senders,
                  ctxCancelled, panicked >>

\* case watcher.WatcherErrMsg
HandleWatcherErr ==
  /\ Running
  /\ BagIn(WatcherErrMsg, inbox)
  /\ watchCmds < MaxWatchCmds
  /\ inbox' = Drop(inbox, WatcherErrMsg)
  /\ statusMessage' = StatusWatcherError(WatcherErrMsg.err)
  /\ watchCmds' = watchCmds + 1
  /\ UNCHANGED << countVars, fnVars, fileVars, parsedData, cursor, modified, quitting,
                  promptVars, tasks, ticks, wpc, timer, senders, ctxCancelled,
                  panicked >>

\* faulty variant of case confirmedReloadMsg: the session stays marked
\* modified while the reload runs
HandleConfirmedReloadKeepingFlag ==
  /\ Running
  /\ BagIn(ConfirmedReloadMsg, inbox)
  /\ inbox' = Drop(inbox, ConfirmedReloadMsg)
  /\ statusMessage' = StatusReloading
  /\ showReloadPrompt' = FALSE
  /\ tasks' = Put(tasks, ReloadTask)
  /\ UNCHANGED << countVars, fnVars, fileVars, parsedData, cursor, modified, quitting,
                  showQuitPrompt, quittingAfterSave, pendingReloadAction, ticks,
                  watcherVars, ctxCancelled, panicked >>

\* case confirmedReloadMsg
HandleConfirmedReload ==
  /\ Running
  /\ BagIn(ConfirmedReloadMsg, inbox)
  /\ inbox' = Drop(inbox, ConfirmedReloadMsg)
  /\ statusMessage' = StatusReloading
  /\ showReloadPrompt' = FALSE
  /\ modified' = FALSE
  /\ tasks' = Put(tasks, ReloadTask)
  /\ UNCHANGED << countVars, fnVars, fileVars, parsedData, cursor, quitting, showQuitPrompt,
                  quittingAfterSave, pendingReloadAction, ticks, watcherVars,
                  ctxCancelled, panicked >>

\* a save command that held the pointer Model.parsedData keeps the document
\* old when Model.parsedData is replaced
Detach(t, old) == IF t.live THEN [t EXCEPT !.live = FALSE, !.data = old] ELSE t

DetachAll(bag, old) == BagOfAll(LAMBDA t : Detach(t, old), bag)

\* case fileReloadedMsg
HandleFileReloaded(m) ==
  /\ Running
  /\ BagIn(m, inbox)
  /\ m.type = "fileReloadedMsg"
  /\ CanTick(StatusReloaded)
  /\ inbox' = Drop(inbox, m)
  /\ parsedData' = m.data
  /\ modified' = FALSE
  /\ cursor' = ensureCursorVisible(m.data, 0)
  /\ statusMessage' = StatusReloaded
  /\ ticks' = ticks \cup {StatusReloaded}
  /\ tasks' = DetachAll(tasks, parsedData)
  /\ UNCHANGED << countVars, fnVars, fileVars, quitting, promptVars, watcherVars,
                  ctxCancelled, panicked >>

(***************************************************************************)
(* Update, case tea.KeyMsg: one action per key of each of its three modes. *)
(***************************************************************************)
\* no prompt is shown: the key goes to the switch on msg.String()
NoPrompt == ~showQuitPrompt /\ ~showReloadPrompt

\* "ctrl+c", "q"
KeyQuit ==
  /\ Running /\ NoPrompt
  /\ statusMessage' = StatusAfterKey
  /\ showQuitPrompt' = modified
  /\ quitting' = ~modified
  /\ ctxCancelled' = (ctxCancelled \/ ~modified)
  /\ keys' = keys + 1
  /\ UNCHANGED << writes, fnVars, fileVars, parsedData, cursor, modified,
                  quittingAfterSave, showReloadPrompt, pendingReloadAction, tasks,
                  inbox, ticks, watcherVars, panicked >>

\* "up", "k": moveUp()
KeyUp ==
  /\ Running /\ NoPrompt
  /\ statusMessage' = StatusAfterKey
  /\ cursor' = IF cursor > 0 THEN ensureCursorVisible(parsedData, cursor - 1) ELSE cursor
  /\ keys' = keys + 1
  /\ UNCHANGED << writes, fnVars, fileVars, parsedData, modified, quitting, promptVars,
                  tasks, inbox, ticks, watcherVars, ctxCancelled, panicked >>

\* "down", "j": moveDown()
KeyDown ==
  /\ Running /\ NoPrompt
  /\ statusMessage' = StatusAfterKey
  /\ cursor' = IF cursor < Len(buildListItems(parsedData)) - 1
               THEN ensureCursorVisible(parsedData, cursor + 1) ELSE cursor
  /\ keys' = keys + 1
  /\ UNCHANGED << writes, fnVars, fileVars, parsedData, modified, quitting, promptVars,
                  tasks, inbox, ticks, watcherVars, ctxCancelled, panicked >>

\* the document and the modified flag after toggleSelection returned r
Toggled(r) ==
  /\ parsedData' = r.data
  /\ modified' = (modified \/ r.changed)

\* " "
KeySpace ==
  /\ Running /\ NoPrompt
  /\ statusMessage' = StatusAfterKey
  /\ Toggled(toggleSelection(parsedData, cursor))
  /\ keys' = keys + 1
  /\ UNCHANGED << writes, fnVars, fileVars, cursor, quitting, promptVars, tasks, inbox,
                  ticks, watcherVars, ctxCancelled, panicked >>

\* "ctrl+s"
KeyCtrlS ==
  /\ Running /\ NoPrompt
  /\ IF modified
     THEN /\ InFlight < MaxInFlight
          /\ statusMessage' = StatusSaving
          /\ tasks' = Put(tasks, SaveTask)
          /\ ticks' = ticks
     ELSE /\ CanTick(StatusNoChanges)
          /\ statusMessage' = StatusNoChanges
          /\ ticks' = ticks \cup {StatusNoChanges}
          /\ tasks' = tasks
  /\ keys' = keys + 1
  /\ UNCHANGED << writes, fnVars, fileVars, parsedData, cursor, modified, quitting,
                  promptVars, inbox, watcherVars, ctxCancelled, panicked >>

\* getSelectedLineContent() of a row
RowContent(item) == IF item.isGroupHeader THEN item.key ELSE item.value

\* "y": the text of the row under the cursor goes to the clipboard, which
\* takes it (ok) or not; listItems[m.cursor] outside the list is a panic
KeyCopy(ok) ==
  /\ Running /\ NoPrompt
  /\ IF cursor < 0 \/ cursor >= Len(buildListItems(parsedData))
     THEN /\ panicked' = TRUE
          /\ statusMessage' = StatusAfterKey
          /\ ticks' = ticks
     ELSE /\ panicked' = panicked
          /\ IF RowContent(buildListItems(parsedData)[cursor + 1]) = << >>
             THEN CanTick(StatusEmptyLine) ELSE (ok => CanTick(StatusCopied))
          /\ statusMessage' =
               IF RowContent(buildListItems(parsedData)[cursor + 1]) = << >>
               THEN StatusEmptyLine
               ELSE IF ok THEN StatusCopied ELSE StatusCopyError
          /\ ticks' =
               IF RowContent(buildListItems(parsedData)[cursor + 1]) = << >>
               THEN ticks \cup {StatusEmptyLine}
               ELSE IF ok THEN ticks \cup {StatusCopied} ELSE ticks
  /\ keys' = keys + 1
  /\ UNCHANGED << writes, fnVars, fileVars, parsedData, cursor, modified, quitting,
                  promptVars, tasks, inbox, watcherVars, ctxCancelled >>

\* handleQuitPrompt, "y", "Y"
QuitPromptYes ==
  /\ Running /\ showQuitPrompt
  /\ InFlight < MaxInFlight
  /\ statusMessage' = StatusSaving
  /\ quittingAfterSave' = TRUE
  /\ tasks' = Put(tasks, QuitSaveTask)
  /\ keys' = keys + 1
  /\ UNCHANGED << writes, fnVars, fileVars, parsedData, cursor, modified, quitting,
                  showQuitPrompt, showReloadPrompt, pendingReloadAction, inbox,
                  ticks, watcherVars, ctxCancelled, panicked >>

\* handleQuitPrompt, "n", "N"
QuitPromptNo ==
  /\ Running /\ showQuitPrompt
  /\ statusMessage' = StatusAfterKey
  /\ quitting' = TRUE
  /\ ctxCancelled' = TRUE
  /\ keys' = keys + 1
  /\ UNCHANGED << writes, fnVars, fileVars, parsedData, cursor, modified, promptVars, tasks,
                  inbox, ticks, watcherVars, panicked >>

\* handleQuitPrompt, "c", "C", "esc"
QuitPromptCancel ==
  /\ Running /\ showQuitPrompt
  /\ showQuitPrompt' = FALSE
  /\ quittingAfterSave' = FALSE
  /\ statusMessage' = NoStatus
  /\ keys' = keys + 1
  /\ UNCHANGED << writes, fnVars, fileVars, parsedData, cursor, modified, quitting,
                  showReloadPrompt, pendingReloadAction, tasks, inbox, ticks,
                  watcherVars, ctxCancelled, panicked >>

\* handleReloadPrompt, "r": the pending action, a command that returns
\* confirmedReloadMsg, is run
ReloadPromptReload ==
  /\ Running /\ ~showQuitPrompt /\ showReloadPrompt
  /\ showReloadPrompt' = FALSE
  /\ pendingReloadAction' = FALSE
  /\ IF pendingReloadAction
     THEN /\ InFlight < MaxInFlight
          /\ inbox' = Put(inbox, ConfirmedReloadMsg)
          /\ statusMessage' = StatusAfterKey
     ELSE /\ inbox' = inbox
          /\ statusMessage' = StatusNoPending
  /\ keys' = keys + 1
  /\ UNCHANGED << writes, fnVars, fileVars, parsedData, cursor, modified, quitting,
                  showQuitPrompt, quittingAfterSave, tasks, ticks, watcherVars,
                  ctxCancelled, panicked >>

\* faulty variant of keep: the session is marked unmodified and no
\* WatchFileCmd is started
ReloadPromptKeepForgetting ==
  /\ Running /\ ~showQuitPrompt /\ showReloadPrompt
  /\ showReloadPrompt' = FALSE
  /\ pendingReloadAction' = FALSE
  /\ statusMessage' = StatusKept
  /\ modified' = FALSE
  /\ keys' = keys + 1
  /\ UNCHANGED << writes, fnVars, fileVars, parsedData, cursor, quitting,
                  showQuitPrompt, quittingAfterSave, tasks, inbox, ticks,
                  watcherVars, ctxCancelled, panicked >>

\* handleReloadPrompt, "k", "esc": keep, and one more WatchFileCmd
ReloadPromptKeep ==
  /\ Running /\ ~showQuitPrompt /\ showReloadPrompt
  /\ watchCmds < MaxWatchCmds
  /\ showReloadPrompt' = FALSE
  /\ pendingReloadAction' = FALSE
  /\ statusMessage' = StatusKept
  /\ watchCmds' = watchCmds + 1
  /\ keys' = keys + 1
  /\ UNCHANGED << writes, fnVars, fileVars, parsedData, cursor, modified, quitting,
                  showQuitPrompt, quittingAfterSave, tasks, inbox, ticks, wpc, timer,
                  senders, ctxCancelled, panicked >>

\* any key the mode at hand does not handle: only the status is cleared
KeyOther ==
  /\ Running
  /\ statusMessage' = StatusAfterKey
  /\ keys' = keys + 1
  /\ UNCHANGED << writes, fnVars, fileVars, parsedData, cursor, modified, quitting,
                  promptVars, tasks, inbox, ticks, watcherVars, ctxCancelled,
                  panicked >>

(***************************************************************************)
(* The debounce timer of Watcher.Start.  timer is the number of ticks the  *)
(* timer has left before it fires, 0 when no timer is running.             *)
(***************************************************************************)
\* faulty variant: a Write event leaves a timer that is running as it is,
\* so that the window is counted from the first event
WriteEventKeepingTimer(t) ==
  IF wpc = "loop" /\ t = 0 THEN DebounceTicks ELSE t

\* the timer after a Write event for the file, the timer being t before: the
\* goroutine, when it is in its loop, stops the timer and starts one that
\* fires after debounceDuration
WriteEvent(t) ==
  IF wpc = "loop" THEN DebounceTicks ELSE t

(***************************************************************************)
(* The save command: saveCmd, saveFile.                                    *)
(***************************************************************************)
\* the document a save command reads through its pointer
TaskDoc(t) == IF t.live THEN parsedData ELSE t.data

Replace(bag, t, u) == Put(Drop(bag, t), u)

\* how backupFile ends: the file is copied; os.Open or os.Create fails and
\* the .bak file is as it was; os.Create has truncated the .bak file and the
\* copy or the flush fails
BackupOutcomes == {"copied", "not opened", "not copied"}

\* the .bak file after backupFile ended with outcome r
BackupResult(r) ==
  IF r = "copied" THEN disk ELSE IF r = "not opened" THEN bak ELSE << >>

\* faulty variant of saveFile step 1: a backup that fails ends the save,
\* which reports the error and writes nothing
SaveBackupAborting(t, r) ==
  /\ ~panicked
  /\ BagIn(t, tasks) /\ t.kind = "save" /\ t.pc = "backup"
  /\ bak' = BackupResult(r)
  /\ IF r = "copied"
     THEN /\ tasks' = Replace(tasks, t,
                        [t EXCEPT !.pc = IF Len(TaskDoc(t).Lines) = 0 THEN "write" ELSE "render"])
          /\ inbox' = inbox
     ELSE /\ tasks' = Drop(tasks, t)
          /\ inbox' = Put(inbox, ErrMsg("failed to create backup"))
  /\ UNCHANGED << countVars, fnVars, disk, parsedData, cursor, modified, quitting, promptVars,
                  statusMessage, ticks, watcherVars, ctxCancelled, panicked >>

\* saveFile step 1: backupFile; saveFile prints a warning when it fails and
\* goes on either way
SaveBackup(t, r) ==
  /\ ~panicked
  /\ BagIn(t, tasks) /\ t.kind = "save" /\ t.pc = "backup"
  /\ bak' = BackupResult(r)
  /\ tasks' = Replace(tasks, t,
                [t EXCEPT !.pc = IF Len(TaskDoc(t).Lines) = 0 THEN "write" ELSE "render"])
  /\ UNCHANGED << countVars, fnVars, disk, parsedData, cursor, modified, quitting, promptVars,
                  statusMessage, inbox, ticks, watcherVars, ctxCancelled, panicked >>

\* saveFile step 2, one turn of the loop over data.Lines: the line is
\* rendered from the groups as they are at this moment
SaveRenderLine(t) ==
  /\ ~panicked
  /\ BagIn(t, tasks) /\ t.kind = "save" /\ t.pc = "render"
  /\ tasks' = Replace(tasks, t,
                [t EXCEPT !.buf = @ \o RenderLine(TaskDoc(t), t.i + 1) \o << NL >>,
                          !.i = @ + 1,
                          !.pc = IF t.i + 1 = Len(TaskDoc(t).Lines) THEN "write" ELSE "render"])
  /\ UNCHANGED << countVars, fnVars, fileVars, parsedData, cursor, modified, quitting,
                  promptVars, statusMessage, inbox, ticks, watcherVars, ctxCancelled,
                  panicked >>

\* saveFile step 3: the content ends with a newline
WithFinalNewline(content) ==
  IF Len(content) = 0 \/ content[Len(content)] # NL THEN content \o << NL >> ELSE content

\* saveFile step 3 and the end of the command: os.WriteFile succeeds (ok),
\* which the watcher sees as a write to the file, or fails
SaveWrite(t, ok) ==
  /\ ~panicked
  /\ BagIn(t, tasks) /\ t.kind = "save" /\ t.pc = "write"
  /\ tasks' = Drop(tasks, t)
  /\ disk' = IF ok THEN WithFinalNewline(t.buf) ELSE disk
  /\ timer' = IF ok THEN WriteEvent(timer) ELSE timer
  /\ inbox' = Put(inbox, IF ok THEN SaveSuccessOf(t) ELSE ErrMsg("failed to write to file"))
  /\ UNCHANGED << countVars, fnVars, bak, parsedData, cursor, modified, quitting, promptVars,
                  statusMessage, ticks, wpc, senders, watchCmds, ctxCancelled,
                  panicked >>

(***************************************************************************)
(* The reload command: reloadFileCmd.                                      *)
(***************************************************************************)
\* faulty variant of reloadFileCmd: the error of ParseFile is dropped and
\* what it returned is reported as the reloaded document
ReloadResultDroppingError(r) == FileReloadedMsg(r.data)

\* the message of the command when ParseFile returned r
ReloadResult(r) ==
  IF r.err THEN ErrMsg("failed to reload file") ELSE FileReloadedMsg(r.data)

\* ParseFile reads the file (ok) or cannot open it
ReloadParse(t, ok) ==
  /\ ~panicked
  /\ BagIn(t, tasks) /\ t.kind = "reload"
  /\ tasks' = Drop(tasks, t)
  /\ inbox' = Put(inbox, IF ok THEN ReloadResult(ParseFile(disk))
                         ELSE ErrMsg("failed to reload file"))
  /\ UNCHANGED << countVars, fnVars, fileVars, parsedData, cursor, modified, quitting,
                  promptVars, statusMessage, ticks, watcherVars, ctxCancelled,
                  panicked >>

(***************************************************************************)
(* The file, and the watcher: Watcher.Start, Watcher.WatchFileCmd.         *)
(***************************************************************************)
\* another process writes the file, which the watcher sees as a write to
\* the file
ExternalWrite(text) ==
  /\ Running /\ writes < MaxExternalWrites
  /\ disk' = text
  /\ timer' = WriteEvent(timer)
  /\ writes' = writes + 1
  /\ UNCHANGED << keys, fnVars, bak, parsedData, cursor, modified, quitting, promptVars,
                  statusMessage, tasks, inbox, ticks, wpc, senders, watchCmds,
                  ctxCancelled, panicked >>

\* runApplication from watcher.New() on: main exits with status 1 when it
\* returns an error; else InitialModel, p.Run() and Init(), which starts the
\* watcher goroutine and returns the first WatchFileCmd
WatcherNew(ok) ==
  /\ wpc = "new"
  /\ wpc' = IF ok THEN "add" ELSE "exit"
  /\ watchCmds' = IF ok THEN 1 ELSE 0
  /\ UNCHANGED << countVars, fnVars, fileVars, parsedData, cursor, modified, quitting,
                  promptVars, statusMessage, tasks, inbox, ticks, timer, senders,
                  ctxCancelled, panicked >>

\* w.watcher.Add(filePath) succeeds (ok) or fails
WatcherAdd(ok) ==
  /\ ~panicked
  /\ wpc = "add"
  /\ wpc' = IF ok THEN "loop" ELSE "sendErr"
  /\ UNCHANGED << countVars, fnVars, fileVars, parsedData, cursor, modified, quitting,
                  promptVars, statusMessage, tasks, inbox, ticks, timer, senders,
                  watchCmds, ctxCancelled, panicked >>

\* w.Errors <- err meets a WatchFileCmd, which returns WatcherErrMsg; the
\* goroutine returns and closes the channels
WatcherSendErr ==
  /\ ~panicked
  /\ wpc = "sendErr" /\ watchCmds > 0
  /\ InFlight < MaxInFlight
  /\ wpc' = "stopped"
  /\ watchCmds' = watchCmds - 1
  /\ inbox' = Put(inbox, WatcherErrMsg)
  /\ UNCHANGED << countVars, fnVars, fileVars, parsedData, cursor, modified, quitting,
                  promptVars, statusMessage, tasks, ticks, timer, senders,
                  ctxCancelled, panicked >>

\* case <-ctx.Done(): the goroutine returns and closes the channels
WatcherStop ==
  /\ ~panicked
  /\ wpc = "loop" /\ ctxCancelled
  /\ wpc' = "stopped"
  /\ UNCHANGED << countVars, fnVars, fileVars, parsedData, cursor, modified, quitting,
                  promptVars, statusMessage, tasks, inbox, ticks, timer, senders,
                  watchCmds, ctxCancelled, panicked >>

\* a tick of the clock passes and the timer has more than that left
TimerTick ==
  /\ ~panicked
  /\ timer > 1
  /\ timer' = timer - 1
  /\ UNCHANGED << countVars, fnVars, fileVars, parsedData, cursor, modified, quitting,
                  promptVars, statusMessage, tasks, inbox, ticks, wpc, senders,
                  watchCmds, ctxCancelled, panicked >>

\* the last tick of the timer passes and it fires: its callback starts to
\* send on w.Events
TimerFire ==
  /\ ~panicked
  /\ timer = 1 /\ senders < MaxSenders
  /\ timer' = 0
  /\ senders' = senders + 1
  /\ UNCHANGED << countVars, fnVars, fileVars, parsedData, cursor, modified, quitting,
                  promptVars, statusMessage, tasks, inbox, ticks, wpc, watchCmds,
                  ctxCancelled, panicked >>

\* the send of a callback meets the receive of a WatchFileCmd, which
\* returns FileChangedMsg
Deliver ==
  /\ ~panicked
  /\ wpc # "stopped" /\ senders > 0 /\ watchCmds > 0
  /\ InFlight < MaxInFlight
  /\ senders' = senders - 1
  /\ watchCmds' = watchCmds - 1
  /\ inbox' = Put(inbox, FileChangedMsg)
  /\ UNCHANGED << countVars, fnVars, fileVars, parsedData, cursor, modified, quitting,
                  promptVars, statusMessage, tasks, ticks, wpc, timer, ctxCancelled,
                  panicked >>

\* the channels are closed: a WatchFileCmd returns nil, no message
WatchCmdClosed ==
  /\ ~panicked
  /\ wpc = "stopped" /\ watchCmds > 0
  /\ watchCmds' = watchCmds - 1
  /\ UNCHANGED << countVars, fnVars, fileVars, parsedData, cursor, modified, quitting,
                  promptVars, statusMessage, tasks, inbox, ticks, wpc, timer, senders,
                  ctxCancelled, panicked >>

\* the channels are closed: the send of a callback panics
SenderPanic ==
  /\ ~panicked
  /\ wpc = "stopped" /\ senders > 0
  /\ panicked' = TRUE
  /\ UNCHANGED << countVars, fnVars, fileVars, parsedData, cursor, modified, quitting,
                  promptVars, statusMessage, tasks, inbox, ticks, watcherVars,
                  ctxCancelled >>

\* a step of the program, of the user, who presses MaxKeys keys at most and
\* then answers MaxAnswers prompts at most, or of another process
Next ==
  \/ HandleWindowSize
  \/ \E m \in BagToSet(inbox) : HandleSaveSuccess(m)
  \/ \E m \in BagToSet(inbox) : HandleErrMsg(m)
  \/ \E originalMsg \in ticks : HandleClearStatus(originalMsg)
  \/ HandleFileChanged
  \/ HandleWatcherErr
  \/ HandleConfirmedReload
  \/ \E m \in BagToSet(inbox) : HandleFileReloaded(m)
  \/ keys < MaxKeys /\ KeyQuit
  \/ keys < MaxKeys /\ KeyUp
  \/ keys < MaxKeys /\ KeyDown
  \/ keys < MaxKeys /\ KeySpace
  \/ keys < MaxKeys /\ KeyCtrlS
  \/ keys < MaxKeys /\ \E ok \in BOOLEAN : KeyCopy(ok)
  \/ keys < MaxKeys + MaxAnswers /\ QuitPromptYes
  \/ keys < MaxKeys + MaxAnswers /\ QuitPromptNo
  \/ keys < MaxKeys + MaxAnswers /\ QuitPromptCancel
  \/ keys < MaxKeys + MaxAnswers /\ ReloadPromptReload
  \/ keys < MaxKeys + MaxAnswers /\ ReloadPromptKeep
  \/ keys < MaxKeys /\ KeyOther
  \/ \E t \in BagToSet(tasks), r \in BackupOutcomes : SaveBackup(t, r)
  \/ \E t \in BagToSet(tasks) : SaveRenderLine(t)
  \/ \E t \in BagToSet(tasks), ok \in BOOLEAN : SaveWrite(t, ok)
  \/ \E t \in BagToSet(tasks), ok \in BOOLEAN : ReloadParse(t, ok)
  \/ \E text \in ExternalTexts : ExternalWrite(text)
  \/ \E ok \in BOOLEAN : WatcherNew(ok)
  \/ \E ok \in BOOLEAN : WatcherAdd(ok)
  \/ WatcherSendErr
  \/ WatcherStop
  \/ TimerTick
  \/ TimerFire
  \/ Deliver
  \/ WatchCmdClosed
  \/ SenderPanic

Spec == Init /\ [][Next]_vars

(***************************************************************************)
(* SpecLive: Spec with the scheduling of the program.  Update is called    *)
(* for every message sent to it, a command that was started runs to its    *)
(* end, the goroutine of the watcher and the callbacks of its timer take   *)
(* their steps, and the clock advances.  Nothing is assumed of the user    *)
(* and of the other processes that write the file.                         *)
(***************************************************************************)
\* every message in the inbox is processed
UpdateFair ==
  /\ WF_vars(\E m \in BagToSet(inbox) : HandleSaveSuccess(m))
  /\ WF_vars(\E m \in BagToSet(inbox) : HandleErrMsg(m))
  /\ WF_vars(\E originalMsg \in ticks : HandleClearStatus(originalMsg))
  /\ WF_vars(HandleFileChanged)
  /\ WF_vars(HandleWatcherErr)
  /\ WF_vars(HandleConfirmedReload)
  /\ WF_vars(\E m \in BagToSet(inbox) : HandleFileReloaded(m))

\* every command runs to its end
CommandsFair ==
  /\ WF_vars(\E t \in BagToSet(tasks), r \in BackupOutcomes : SaveBackup(t, r))
  /\ WF_vars(\E t \in BagToSet(tasks) : SaveRenderLine(t))
  /\ WF_vars(\E t \in BagToSet(tasks), ok \in BOOLEAN : SaveWrite(t, ok))
  /\ WF_vars(\E t \in BagToSet(tasks), ok \in BOOLEAN : ReloadParse(t, ok))

\* main, the goroutine of the watcher, the timer and its callbacks and the
\* WatchFileCmd commands take their steps
WatcherFair ==
  /\ WF_vars(\E ok \in BOOLEAN : WatcherNew(ok))
  /\ WF_vars(\E ok \in BOOLEAN : WatcherAdd(ok))
  /\ WF_vars(WatcherSendErr)
  /\ WF_vars(WatcherStop)
  /\ WF_vars(TimerTick)
  /\ WF_vars(TimerFire)
  /\ WF_vars(Deliver)
  /\ WF_vars(WatchCmdClosed)
  /\ WF_vars(SenderPanic)

\* the most keys the user presses in SpecLive
MaxLiveKeys == 2

\* the user of SpecLive may press one more key
LiveKey == keys < MaxLiveKeys

\* the steps of Next without the messages of the terminal and, for its
\* keys, an edit, a save, a quit and the answers to the conflict prompt,
\* MaxLiveKeys of them at most
NextLive ==
  \/ \E m \in BagToSet(inbox) : HandleSaveSuccess(m)
  \/ \E m \in BagToSet(inbox) : HandleErrMsg(m)
  \/ \E originalMsg \in ticks : HandleClearStatus(originalMsg)
  \/ HandleFileChanged
  \/ HandleWatcherErr
  \/ HandleConfirmedReload
  \/ \E m \in BagToSet(inbox) : HandleFileReloaded(m)
  \/ LiveKey /\ KeyQuit
  \/ LiveKey /\ KeySpace
  \/ LiveKey /\ KeyCtrlS
  \/ LiveKey /\ ReloadPromptReload
  \/ LiveKey /\ ReloadPromptKeep
  \/ \E t \in BagToSet(tasks), r \in BackupOutcomes : SaveBackup(t, r)
  \/ \E t \in BagToSet(tasks) : SaveRenderLine(t)
  \/ \E t \in BagToSet(tasks), ok \in BOOLEAN : SaveWrite(t, ok)
  \/ \E t \in BagToSet(tasks), ok \in BOOLEAN : ReloadParse(t, ok)
  \/ \E text \in ExternalTexts : ExternalWrite(text)
  \/ \E ok \in BOOLEAN : WatcherNew(ok)
  \/ \E ok \in BOOLEAN : WatcherAdd(ok)
  \/ WatcherSendErr
  \/ WatcherStop
  \/ TimerTick
  \/ TimerFire
  \/ Deliver
  \/ WatchCmdClosed
  \/ SenderPanic

SpecLive == Init /\ [][NextLive]_vars /\ UpdateFair /\ CommandsFair /\ WatcherFair

(***************************************************************************)
(* SpecEdit: the user edits and saves, for more keys than Spec allows.     *)
(* The steps are those of Next for the cursor, the space key, the save     *)
(* key, the save command and the messages it ends with; the file is not    *)
(* written by other processes and the goroutine of the watcher has not     *)
(* yet been scheduled.                                                     *)
(***************************************************************************)
\* the most keys the user presses in SpecEdit
MaxEditKeys == 6

NextEdit ==
  \/ \E m \in BagToSet(inbox) : HandleSaveSuccess(m)
  \/ \E m \in BagToSet(inbox) : HandleErrMsg(m)
  \/ \E originalMsg \in ticks : HandleClearStatus(originalMsg)
  \/ keys < MaxEditKeys /\ KeyUp
  \/ keys < MaxEditKeys /\ KeyDown
  \/ keys < MaxEditKeys /\ KeySpace
  \/ keys < MaxEditKeys /\ KeyCtrlS
  \/ \E t \in BagToSet(tasks), r \in BackupOutcomes : SaveBackup(t, r)
  \/ \E t \in BagToSet(tasks) : SaveRenderLine(t)
  \/ \E t \in BagToSet(tasks), ok \in BOOLEAN : SaveWrite(t, ok)
  \/ \E ok \in BOOLEAN : WatcherNew(ok)

SpecEdit == Init /\ [][NextEdit]_vars

(***************************************************************************)
(* Definitions the properties below are stated with.                       *)
(***************************************************************************)
\* the lines of a text, cut at every "\n" and at nothing else
RECURSIVE SplitNL(_)
SplitNL(text) ==
  IF Len(text) = 0 THEN << >>
  ELSE IF IndexOf(text, NL) > 0
  THEN << SubSeq(text, 1, IndexOf(text, NL) - 1) >> \o SplitNL(From(text, IndexOf(text, NL) + 1))
  ELSE << text >>

\* every line of lines followed by "\n"
RECURSIVE EachWithNL(_)
EachWithNL(lines) ==
  IF Len(lines) = 0 THEN << >> ELSE lines[1] \o << NL >> \o EachWithNL(Tail(lines))

\* text is not empty and each of its lines ends with "\n", none with "\r\n"
LFTerminated(text) ==
  /\ Len(text) > 0
  /\ text[Len(text)] = NL
  /\ \A i \in 2..Len(text) : text[i] = NL => text[i - 1] # CR

IsVariable(data, ptr) == data.Lines[ptr].Type = LineTypeVariable

\* the serializer's rule: the Variable line ptr should be enabled iff its
\* group is selected and it is the member at selectedIndex
ShouldBeEnabled(data, ptr) ==
  /\ data.VariableGroups[data.Lines[ptr].Key].IsSelected
  /\ data.VariableGroups[data.Lines[ptr].Key].SelectedLineIdx
       = LineIndexInGroup(data.VariableGroups[data.Lines[ptr].Key], ptr)

\* the Variable line ptr is enabled where it was read
IsEnabled(data, ptr) == ~data.Lines[ptr].IsCommentedOut

\* no line of the document needs an enabled/disabled flip
NoFlipNeeded(data) ==
  \A ptr \in 1..Len(data.Lines) :
    IsVariable(data, ptr) => (ShouldBeEnabled(data, ptr) <=> IsEnabled(data, ptr))

\* r, what ParseLine returns for a written line, is an enabled definition
\* of key
EnabledDefinition(r, key) ==
  /\ ~r.err
  /\ r.line.Type = LineTypeVariable
  /\ r.line.Key = key
  /\ ~r.line.IsCommentedOut

\* the text of a written line is an enabled definition of key
WrittenEnabled(text, key) == EnabledDefinition(ParseLine(text, 1), key)

\* the key of the group of row c, and whether row c is a group header
RowKey(data, c) == data.GroupOrder[buildListItems(data)[c + 1].groupIndex + 1]

RowIsHeader(data, c) == buildListItems(data)[c + 1].isGroupHeader

RowValueIndex(data, c) == buildListItems(data)[c + 1].valueIndex

(***************************************************************************)
(* C1. Round trip.                                                         *)
(***************************************************************************)
\* C1 as claimed: a text in which no line needs a flip, parsed and saved with
\* no selection change, is written back exactly as it was, whether or not
\* its last line ends with a newline.
C1_RoundTripExact ==
  (fnPc = "saved" /\ ~fnEdited /\ NoFlipNeeded(fnData)) => fnDisk = fnSrc

\* C1 as amended: such a text is written back with the text of every line
\* reproduced exactly and each line ended by one "\n"; it is written back
\* byte for byte when it is not empty and each of its lines ends with "\n"
\* (not "\r\n"). An empty text is written as a single "\n".
C1_RoundTrip ==
  (fnPc = "saved" /\ ~fnEdited /\ NoFlipNeeded(fnData)) =>
    /\ fnDisk = (IF ScanLines(fnSrc) = << >> THEN << NL >> ELSE EachWithNL(ScanLines(fnSrc)))
    /\ LFTerminated(fnSrc) => fnDisk = fnSrc

\* a saved, unedited document with an indented enabled variable, a disabled
\* variable and a blank or comment line, written back byte for byte
C1_Witness ==
  /\ fnPc = "saved" /\ ~fnEdited /\ NoFlipNeeded(fnData)
  /\ Len(fnData.Lines) = 3
  /\ \E p \in 1..3 : IsVariable(fnData, p) /\ IsEnabled(fnData, p)
                     /\ fnData.Lines[p].OriginalContent[1] = Space
  /\ \E p \in 1..3 : IsVariable(fnData, p) /\ ~IsEnabled(fnData, p)
  /\ \E p \in 1..3 : ~IsVariable(fnData, p)
  /\ fnDisk = fnSrc

(***************************************************************************)
(* C2. Lines whose status does not change are written verbatim.            *)
(***************************************************************************)
\* the lines of data that need no flip are in out, each at its own position
\* and with its original text
KeptVerbatim(data, out) ==
  \A ptr \in 1..Len(data.Lines) :
    (IsVariable(data, ptr) => (ShouldBeEnabled(data, ptr) <=> IsEnabled(data, ptr)))
    => /\ ptr <= Len(out)
       /\ out[ptr] = data.Lines[ptr].OriginalContent

\* C2: in every save, every Blank line, every Comment line and every
\* Variable line that is already as enabled as it should be is written with
\* its original text, at its own position in the file.
C2_UntouchedLinesVerbatim ==
  fnPc = "saved" => KeptVerbatim(fnData, SplitNL(fnDisk))

\* a save after an edit that rewrote one line and left a variable line and a
\* comment or blank line as they were
C2_Witness ==
  /\ fnPc = "saved" /\ fnEdited
  /\ Len(fnData.Lines) = 3
  /\ \E p \in 1..3 : SplitNL(fnDisk)[p] # fnData.Lines[p].OriginalContent
  /\ \E p \in 1..3 : IsVariable(fnData, p)
                     /\ SplitNL(fnDisk)[p] = fnData.Lines[p].OriginalContent
  /\ \E p \in 1..3 : ~IsVariable(fnData, p)

(***************************************************************************)
(* C3. Single-flip minimality.                                             *)
(***************************************************************************)
\* (a step is the space key at row c exactly when it is FnSpace(c), and then
\* c is fnLast')
\* C3: one space key changes, in what the serializer writes, only lines of
\* the group acted on, and among them only the lines whose enabled status
\* changes; every other line is written as before the key.
C3_SingleFlipMinimal ==
  [][FnSpace(fnLast') =>
       \A ptr \in 1..Len(fnData.Lines) :
         (\/ ~IsVariable(fnData, ptr)
          \/ fnData.Lines[ptr].Key # RowKey(fnData, fnLast')
          \/ ShouldBeEnabled(fnData', ptr) <=> ShouldBeEnabled(fnData, ptr))
         => RenderLine(fnData', ptr) = RenderLine(fnData, ptr)]_vars

\* after a space key on a row of one group: a line of that group is written
\* differently from its original text, and the document holds another group
C3_Witness ==
  /\ fnPc = "editing" /\ fnEdited /\ fnLast >= 0
  /\ Len(fnData.GroupOrder) = 2
  /\ \E p \in 1..Len(fnData.Lines) :
       /\ IsVariable(fnData, p)
       /\ fnData.Lines[p].Key = RowKey(fnData, fnLast)
       /\ RenderLine(fnData, p) # fnData.Lines[p].OriginalContent

(***************************************************************************)
(* C4. The scenario FOO=1, #FOO=2, BAR=x.                                  *)
(***************************************************************************)
FOOKey == <<"F", "O", "O">>

BARKey == <<"B", "A", "R">>

\* the scenario's document after the second member of FOO was chosen (row 2)
ScenarioChosen ==
  /\ fnSrc = ScenarioText
  /\ fnLast = 2
  /\ fnData.VariableGroups[FOOKey].IsSelected
  /\ fnData.VariableGroups[FOOKey].SelectedLineIdx = 1
  /\ fnData.VariableGroups[BARKey].IsSelected
  /\ fnData.VariableGroups[BARKey].SelectedLineIdx = 0

\* C4 as claimed: choosing the second member of FOO and saving writes exactly
\* the lines #FOO=1, FOO=2, BAR=x.
C4_ScenarioAsClaimed ==
  (fnPc = "saved" /\ ScenarioChosen) => fnDisk = <<"#", "F", "O", "O", "=", "1", "\n", "F", "O", "O", "=", "2", "\n", "B", "A", "R", "=", "x", "\n">>

\* C4 as amended: choosing the second member of FOO and saving writes exactly
\* the lines "# FOO=1", FOO=2, BAR=x: the marker is inserted with one space
\* after it.
C4_Scenario ==
  (fnPc = "saved" /\ ScenarioChosen) => fnDisk = <<"#", " ", "F", "O", "O", "=", "1", "\n", "F", "O", "O", "=", "2", "\n", "B", "A", "R", "=", "x", "\n">>

C4_Witness == fnPc = "saved" /\ ScenarioChosen /\ fnEdited

(***************************************************************************)
(* C5. One enabled member per selected group in what is written.           *)
(***************************************************************************)
\* in the written lines out, the enabled members of every group of data are
\* the member at selectedIndex when the group is selected, none otherwise
OneEnabledMember(data, out) ==
  \A key \in DOMAIN data.VariableGroups :
    \A i \in 1..Len(data.VariableGroups[key].Lines) :
      WrittenEnabled(out[data.VariableGroups[key].Lines[i]], key)
      <=> (/\ data.VariableGroups[key].IsSelected
           /\ data.VariableGroups[key].SelectedLineIdx = i - 1)

\* C5: in the text a save writes, the enabled members of every group are
\* exactly the member at selectedIndex when the group is selected, and none
\* when it is not.
C5_OneEnabledMember ==
  fnPc = "saved" => OneEnabledMember(fnData, SplitNL(fnDisk))

\* a save after edits, of a document with a selected group of three members
\* whose third is chosen, or with a group switched off that had an enabled
\* member
C5_Witness ==
  /\ fnPc = "saved" /\ fnEdited
  /\ \E key \in DOMAIN fnData.VariableGroups :
       /\ Len(fnData.VariableGroups[key].Lines) = 3
       /\ fnData.VariableGroups[key].IsSelected
       /\ fnData.VariableGroups[key].SelectedLineIdx = 2
       /\ IsEnabled(fnData, fnData.VariableGroups[key].Lines[1])
       /\ IsEnabled(fnData, fnData.VariableGroups[key].Lines[2])

(***************************************************************************)
(* C8. Selection memory.                                                   *)
(***************************************************************************)
\* C8: the space key on a group header flips the group's selected flag and
\* leaves its selectedIndex as it was, so the member chosen before the group
\* was switched off is the chosen one when it is switched on again.
C8_ToggleKeepsIndex ==
  [][(FnSpace(fnLast') /\ RowIsHeader(fnData, fnLast')) =>
       /\ fnData'.VariableGroups[RowKey(fnData, fnLast')].SelectedLineIdx
            = fnData.VariableGroups[RowKey(fnData, fnLast')].SelectedLineIdx
       /\ fnData'.VariableGroups[RowKey(fnData, fnLast')].IsSelected
            = ~fnData.VariableGroups[RowKey(fnData, fnLast')].IsSelected]_vars

\* members [A, B, C] with A the enabled one in the file: B is the chosen
\* member and the group is on right after a space key on its header, which
\* takes choosing B, switching the group off and switching it on again
C8_Witness ==
  /\ fnPc = "editing"
  /\ Len(fnData.Lines) = 3
  /\ Len(fnData.GroupOrder) = 1
  /\ IsEnabled(fnData, 1) /\ ~IsEnabled(fnData, 2) /\ ~IsEnabled(fnData, 3)
  /\ fnLast = 0
  /\ fnData.VariableGroups[fnData.GroupOrder[1]].IsSelected
  /\ fnData.VariableGroups[fnData.GroupOrder[1]].SelectedLineIdx = 1

(***************************************************************************)
(* C9. Choosing a member.                                                  *)
(***************************************************************************)
\* C9: the space key on the row of member j leaves the group selected with
\* selectedIndex = j, whether the group was off or on with another member.
C9_ChooseSelects ==
  [][(FnSpace(fnLast') /\ ~RowIsHeader(fnData, fnLast')) =>
       /\ fnData'.VariableGroups[RowKey(fnData, fnLast')].IsSelected
       /\ fnData'.VariableGroups[RowKey(fnData, fnLast')].SelectedLineIdx
            = RowValueIndex(fnData, fnLast')]_vars

\* a group that was off in the file, remembering its first member, is on
\* with its second member right after the space key on that member's row
C9_Witness ==
  /\ fnPc = "editing"
  /\ Len(fnData.GroupOrder) = 1
  /\ \A p \in 1..Len(fnData.Lines) : IsVariable(fnData, p) => ~IsEnabled(fnData, p)
  /\ fnLast = 2
  /\ fnData.VariableGroups[fnData.GroupOrder[1]].IsSelected
  /\ fnData.VariableGroups[fnData.GroupOrder[1]].SelectedLineIdx = 1

(***************************************************************************)
(* C10. Choosing the member already chosen.                                *)
(***************************************************************************)
\* C10: the space key on the row of member j of a group that is selected
\* with selectedIndex = j changes nothing: the document stays as it is and
\* the modified flag is not raised.
C10_ChooseSameIsNoOp ==
  [][(/\ FnSpace(fnLast')
      /\ ~RowIsHeader(fnData, fnLast')
      /\ fnData.VariableGroups[RowKey(fnData, fnLast')].IsSelected
      /\ fnData.VariableGroups[RowKey(fnData, fnLast')].SelectedLineIdx
           = RowValueIndex(fnData, fnLast'))
     => fnData' = fnData /\ fnEdited' = fnEdited]_vars

\* an unmodified document right after the space key on the row of the member
\* its group is selected with
C10_Witness ==
  /\ fnPc = "editing" /\ ~fnEdited
  /\ fnLast >= 0
  /\ ~RowIsHeader(fnData, fnLast)
  /\ fnData.VariableGroups[RowKey(fnData, fnLast)].IsSelected
  /\ fnData.VariableGroups[RowKey(fnData, fnLast)].SelectedLineIdx = RowValueIndex(fnData, fnLast)
  /\ Len(fnData.VariableGroups[RowKey(fnData, fnLast)].Lines) >= 2

(***************************************************************************)
(* C6. A change notification and the document.                             *)
(***************************************************************************)
\* the user chooses at the conflict prompt
UserChooses == ReloadPromptReload \/ ReloadPromptKeep

\* C6: when FileChangedMsg is processed, a session with no unsaved edits
\* starts a reload and shows no prompt, and a session with unsaved edits
\* shows the conflict prompt; and while the prompt is shown the document is
\* neither replaced nor changed by any step but the user's choice.
C6_PromptKeepsDocument ==
  [][/\ HandleFileChanged =>
          IF modified
          THEN showReloadPrompt' /\ parsedData' = parsedData /\ tasks' = tasks
          ELSE /\ showReloadPrompt' = showReloadPrompt
               /\ tasks' = Put(tasks, ReloadTask)
     /\ (showReloadPrompt /\ ~UserChooses) => parsedData' = parsedData]_vars

(***************************************************************************)
(* C7. The conflict prompt stays until the user chooses.                   *)
(***************************************************************************)
\* C7: a conflict prompt that is shown goes away only by the user's choice
\* of reload or keep (or by confirmedReloadMsg, the message of the choice of
\* reload); no other message dismisses it.
C7_PromptStaysPending ==
  [][(showReloadPrompt /\ ~showReloadPrompt') =>
       (UserChooses \/ HandleConfirmedReload)]_vars

(***************************************************************************)
(* C11. A change of the selection marks the session modified.              *)
(***************************************************************************)
\* C11: right after the space key on a group header, and right after the
\* space key on a member row that changed the group's selected flag or its
\* selectedIndex, the session is marked modified.
C11_ChangeMarksModified ==
  [][(FnSpace(fnLast') /\ (RowIsHeader(fnData, fnLast') \/ fnData' # fnData))
       => fnEdited']_vars

\* a session right after the space key moved a selected group from its first
\* member to its second: the document differs from the one that was loaded
\* in that selectedIndex alone, and the session is marked modified
C11_Witness ==
  /\ fnPc = "editing" /\ fnEdited
  /\ fnLast = 2
  /\ ~RowIsHeader(fnData, fnLast)
  /\ fnData.VariableGroups[RowKey(fnData, fnLast)].IsSelected
  /\ fnData.VariableGroups[RowKey(fnData, fnLast)].SelectedLineIdx = 1
  /\ fnData # ParseFile(fnSrc).data
  /\ fnData.Lines = ParseFile(fnSrc).data.Lines
  /\ \A key \in DOMAIN fnData.VariableGroups :
       fnData.VariableGroups[key].IsSelected = ParseFile(fnSrc).data.VariableGroups[key].IsSelected

(***************************************************************************)
(* C12. A save that fails.                                                 *)
(***************************************************************************)
\* the message of a save command whose os.WriteFile failed
SaveFailedMsg == ErrMsg("failed to write to file")

ReloadFailedMsg == ErrMsg("failed to reload file")

\* C13: a reload command (started silently or by the user's choice) whose
\* ParseFile cannot open the file or returns a parse error leaves the
\* document as it is and reports with an error message, never with a
\* document; when Update processes that message the status shows the error
\* and the document (lines, groups, selected flags and selectedIndex) and
\* the cursor are as before.
C13_ReloadFailureKeepsDocument ==
  [][/\ \A t \in BagToSet(tasks), ok \in BOOLEAN :
          (ReloadParse(t, ok) /\ (~ok \/ ParseFile(disk).err)) =>
            /\ inbox' = Put(inbox, ReloadFailedMsg)
            /\ parsedData' = parsedData
     /\ HandleErrMsg(ReloadFailedMsg) =>
          /\ statusMessage' = StatusError(ReloadFailedMsg.err)
          /\ HasErrorPrefix(statusMessage')
          /\ parsedData' = parsedData /\ cursor' = cursor]_vars

\* the file holds an unterminated quote, the failure of the reload is in the
\* status, and the document is still the one of the start with the user's
\* edit in it
C13_Witness ==
  /\ disk = TextBad
  /\ statusMessage = StatusError(ReloadFailedMsg.err)
  /\ tasks = EmptyBag /\ inbox = EmptyBag
  /\ parsedData.Lines = ParseFile(TextTwo).data.Lines
  /\ parsedData # ParseFile(TextTwo).data

(***************************************************************************)
(* C14. The backup.                                                        *)
(***************************************************************************)
\* the save command t is past its backup step in the state after the step
StillSaving(t) ==
  \E u \in BagToSet(tasks') :
    /\ u = [t EXCEPT !.pc = u.pc]
    /\ u.pc \in {"render", "write"}
    /\ tasks' = Replace(tasks, t, u)

\* C14: every save command starts with the backup step, and the file is
\* overwritten only by a save command that is past it; a backup that
\* succeeds leaves in the .bak file exactly the content the file has at that
\* moment, whatever the .bak file held; and whether the backup succeeds or
\* fails, the command goes on to render and write, reports no error for it,
\* and ends with saveSuccessMsg when its write succeeds.
C14_BackupBeforeWrite ==
  [][/\ \A t \in BagToSet(tasks) :
          /\ SaveBackup(t, "copied") => bak' = disk
          /\ \A r \in BackupOutcomes :
               SaveBackup(t, r) => StillSaving(t) /\ inbox' = inbox /\ disk' = disk
          /\ SaveWrite(t, TRUE) =>
               /\ t.pc = "write"
               /\ inbox' = Put(inbox, SaveSuccessOf(t))
               /\ SaveSuccessOf(t).type = "saveSuccessMsg"
               /\ bak' = bak
     /\ (KeyCtrlS /\ modified) =>
          tasks' = Put(tasks, SaveTask) /\ SaveTask.pc = "backup"
     /\ QuitPromptYes =>
          tasks' = Put(tasks, QuitSaveTask) /\ QuitSaveTask.pc = "backup"
     /\ disk' # disk =>
          \/ \E text \in ExternalTexts : ExternalWrite(text)
          \/ \E t \in BagToSet(tasks) : t.pc = "write" /\ SaveWrite(t, TRUE)]_vars

\* no other process wrote the file and no .bak file exists, since the backup
\* of the save could not open or create its files, and the file holds the
\* edited document, which the save wrote and reported as a success
C14_Witness ==
  /\ writes = 0
  /\ bak = NoBackup
  /\ disk \notin StartTexts
  /\ disk = SaveContent(parsedData)
  /\ BagIn(SaveSuccessMsg, inbox)
  /\ modified

(***************************************************************************)
(* C15, C16. The selection right after parsing.                            *)
(***************************************************************************)
\* the document is the one ParseFile returned, no key pressed since
JustLoaded == fnPc = "editing" /\ fnLast = -1 /\ ~fnEdited

\* the positions (1-based) in group.Lines of the members of the group that
\* are enabled in the file
EnabledMembers(data, group) ==
  {i \in 1..Len(group.Lines) : ~data.Lines[group.Lines[i]].IsCommentedOut}

\* every line of text is parsed without an error when taken on its own
EveryLineParses(lines) ==
  \A n \in 1..Len(lines) : ~ParseLine(lines[n], n).err

\* the enabled definitions of key among lines
EnabledDefinitions(lines, key) ==
  {n \in 1..Len(lines) : EnabledDefinition(ParseLine(lines[n], n), key)}

\* some key has several enabled definitions among lines
SeveralEnabled(lines) ==
  \E n \in 1..Len(lines) :
    /\ ~ParseLine(lines[n], n).err
    /\ ParseLine(lines[n], n).line.Type = LineTypeVariable
    /\ Cardinality(EnabledDefinitions(lines, ParseLine(lines[n], n).line.Key)) > 1

\* C15: a file in which a key has more than one enabled definition, and in
\* which every line can be parsed on its own, is loaded without an error;
\* and in every loaded document a group with more than one enabled member is
\* selected, with selectedIndex the index of the first enabled member in
\* file order.
C15_FirstEnabledWins ==
  /\ (fnPc = "failed" /\ SeveralEnabled(ScanLines(fnSrc)))
       => ~EveryLineParses(ScanLines(fnSrc))
  /\ JustLoaded =>
       \A key \in DOMAIN fnData.VariableGroups :
         Cardinality(EnabledMembers(fnData, fnData.VariableGroups[key])) > 1 =>
           /\ fnData.VariableGroups[key].IsSelected
           /\ fnData.VariableGroups[key].SelectedLineIdx
                = Min(EnabledMembers(fnData, fnData.VariableGroups[key])) - 1

\* a document just loaded with a group of three members, the first disabled
\* and the other two enabled: the group is selected with its second member
C15_Witness ==
  /\ JustLoaded
  /\ \E key \in DOMAIN fnData.VariableGroups :
       /\ Len(fnData.VariableGroups[key].Lines) = 3
       /\ EnabledMembers(fnData, fnData.VariableGroups[key]) = {2, 3}
       /\ fnData.VariableGroups[key].IsSelected
       /\ fnData.VariableGroups[key].SelectedLineIdx = 1

\* C16: in every loaded document a group with exactly one enabled member is
\* selected with selectedIndex the index of that member, and a group with no
\* enabled member is not selected and has selectedIndex 0, the index of its
\* first member.
C16_InitialSelection ==
  JustLoaded =>
    \A key \in DOMAIN fnData.VariableGroups :
      /\ Cardinality(EnabledMembers(fnData, fnData.VariableGroups[key])) = 1 =>
           /\ fnData.VariableGroups[key].IsSelected
           /\ EnabledMembers(fnData, fnData.VariableGroups[key])
                = {fnData.VariableGroups[key].SelectedLineIdx + 1}
      /\ EnabledMembers(fnData, fnData.VariableGroups[key]) = {} =>
           /\ ~fnData.VariableGroups[key].IsSelected
           /\ fnData.VariableGroups[key].SelectedLineIdx = 0

\* a document just loaded with two groups: one of two members whose second
\* is the enabled one, selected with index 1, and one whose only member is
\* disabled, not selected, with index 0
C16_Witness ==
  /\ JustLoaded
  /\ \E key \in DOMAIN fnData.VariableGroups :
       /\ EnabledMembers(fnData, fnData.VariableGroups[key]) = {2}
       /\ fnData.VariableGroups[key].IsSelected
       /\ fnData.VariableGroups[key].SelectedLineIdx = 1
  /\ \E key \in DOMAIN fnData.VariableGroups :
       /\ EnabledMembers(fnData, fnData.VariableGroups[key]) = {}
       /\ ~fnData.VariableGroups[key].IsSelected
       /\ fnData.VariableGroups[key].SelectedLineIdx = 0

(***************************************************************************)
(* C17. Lines whose key is no identifier.                                  *)
(***************************************************************************)
\* the text before the first "=" of a line, without the white space around
\* it
BeforeEq(line) == TrimSpace(SubSeq(line, 1, IndexOf(line, Eq) - 1))

\* that text without the export keyword
WithoutExport(b) ==
  IF /\ HasPrefixAt(b, 1, ExportWord)
     /\ Len(b) > Len(ExportWord)
     /\ b[Len(ExportWord) + 1] \in WhiteSpace
  THEN TrimSpace(From(b, Len(ExportWord) + 1))
  ELSE b

\* k is the key text of a line that is not commented out, and is not an
\* identifier, neither bare nor between two single quotes
InvalidKeyText(k) ==
  /\ k # << >>
  /\ k[1] # Hash
  /\ ~isValidKey(UnquoteKey(k))

\* line reads <key>=<value>, is not commented out, and its key is not an
\* identifier
InvalidKeyLine(line) ==
  /\ IndexOf(line, Eq) > 0
  /\ InvalidKeyText(WithoutExport(BeforeEq(line)))

\* the lines of type Variable of data
VariableLines(data) == {p \in 1..Len(data.Lines) : IsVariable(data, p)}

\* C17: in every document, loaded or edited, a line whose key is not a valid
\* identifier is a Comment line with no key and belongs to no group; the
\* rows of the list are one per group and one per Variable line, so the line
\* has no row; and every save writes the line with its original text at its
\* own position.
C17_InvalidKeyIsComment ==
  fnPc \in {"editing", "saved"} =>
    /\ Len(buildListItems(fnData)) = Len(fnData.GroupOrder) + Cardinality(VariableLines(fnData))
    /\ \A p \in 1..Len(fnData.Lines) :
         \/ /\ fnData.Lines[p].Type = LineTypeComment
            /\ fnData.Lines[p].Key = << >>
            /\ \A key \in DOMAIN fnData.VariableGroups :
                 \A i \in 1..Len(fnData.VariableGroups[key].Lines) :
                   fnData.VariableGroups[key].Lines[i] # p
            /\ \/ fnPc # "saved"
               \/ ~InvalidKeyLine(fnData.Lines[p].OriginalContent)
               \/ SplitNL(fnDisk)[p] = fnData.Lines[p].OriginalContent
         \/ ~InvalidKeyLine(fnData.Lines[p].OriginalContent)

\* a save after an edit of a document of two lines: a variable, written with
\* another text than it was read with, and a line with an invalid key
C17_Witness ==
  /\ fnPc = "saved" /\ fnEdited
  /\ Len(fnData.Lines) = 2
  /\ \E p \in 1..2 : InvalidKeyLine(fnData.Lines[p].OriginalContent)
  /\ \E p \in 1..2 : /\ IsVariable(fnData, p)
                     /\ SplitNL(fnDisk)[p] # fnData.Lines[p].OriginalContent

(***************************************************************************)
(* C18, C19. Which texts ParseFile rejects.                                *)
(***************************************************************************)
\* the length of the run of backslashes that ends at position i of v, the
\* opening quote at position 1 not counted
RECURSIVE BackslashRun(_, _)
BackslashRun(v, i) ==
  IF i < 2 \/ v[i] # Backslash THEN 0 ELSE 1 + BackslashRun(v, i - 1)

\* v starts with a quote character and no later character of v is the same
\* quote character unescaped (preceded by an even run of backslashes)
UnterminatedQuote(v) ==
  /\ Len(v) > 0
  /\ v[1] \in {SQuote, DQuote}
  /\ \A i \in 2..Len(v) : v[i] = v[1] => BackslashRun(v, i - 1) % 2 = 1

\* m, the match of variableRegex for a line, is that of a variable line,
\* enabled or commented out, whose value has an unterminated quote
UnterminatedMatch(m) ==
  /\ m.ok
  /\ isValidKey(UnquoteKey(m.key))
  /\ UnterminatedQuote(TrimLeft(m.rest, BlankChars))

\* some line of lines is such a line
HasUnterminated(lines) ==
  \E n \in 1..Len(lines) : UnterminatedMatch(variableRegex(lines[n]))

\* ParseFile has just returned, with a document or with an error
JustParsed == fnPc = "failed" \/ JustLoaded

\* C18 as claimed: whatever the lines of a readable file contain, ParseFile
\* returns a document and no error.
C18_ParsingTotal == fnPc # "failed"

\* C18 as amended: for a readable text in which no variable line has a value
\* with an unterminated quote, ParseFile returns no error and a document
\* with one line per line of the text, in which every line with an invalid
\* key is a Comment line.
C18_ParsingTotalButQuotes ==
  (JustParsed /\ ~HasUnterminated(ScanLines(fnSrc))) =>
    /\ fnPc = "editing"
    /\ Len(fnData.Lines) = Len(ScanLines(fnSrc))
    /\ \A p \in 1..Len(fnData.Lines) :
         /\ fnData.Lines[p].OriginalContent = ScanLines(fnSrc)[p]
         /\ InvalidKeyLine(fnData.Lines[p].OriginalContent)
              => fnData.Lines[p].Type = LineTypeComment

\* a document just loaded from two lines: a line with an invalid key, kept as
\* a Comment, and a variable whose double-quoted value holds an escaped quote
C18_Witness ==
  /\ JustLoaded
  /\ Len(fnData.Lines) = 2
  /\ \E p \in 1..2 : /\ InvalidKeyLine(fnData.Lines[p].OriginalContent)
                     /\ fnData.Lines[p].Type = LineTypeComment
  /\ \E p \in 1..2 : /\ IsVariable(fnData, p)
                     /\ fnData.Lines[p].Value = << Backslash, DQuote >>

\* C19: a text with a variable line, enabled or commented out, whose value
\* starts with a quote character and has no unescaped closing quote of the
\* same kind is rejected as a whole: ParseFile returns an error and no
\* document, whatever lines come before or after that line.
C19_UnterminatedQuoteAborts ==
  (JustParsed /\ HasUnterminated(ScanLines(fnSrc))) =>
    fnPc = "failed" /\ fnData = EmptyData

\* a load that failed on a text of two lines: an enabled variable that
\* parses, then a commented-out variable with an unterminated quote
C19_Witness ==
  /\ fnPc = "failed" /\ fnData = EmptyData
  /\ Len(ScanLines(fnSrc)) = 2
  /\ EnabledDefinition(ParseLine(ScanLines(fnSrc)[1], 1), << "A" >>)
  /\ variableRegex(ScanLines(fnSrc)[2]).hash
  /\ UnterminatedMatch(variableRegex(ScanLines(fnSrc)[2]))

(***************************************************************************)
(* C20. The end of the written text.                                       *)
(***************************************************************************)
\* C20: the text a save writes ends with a line terminator, and with
\* exactly one: it has as many terminated lines as the document has lines
\* and its last line is the rendering of the document's last line, so none
\* is added to content that ends with one, also when the last lines are
\* blank; for a document with no lines, whose content is empty, the text is
\* the one terminator that is appended.
C20_OneFinalNewline ==
  fnPc = "saved" =>
    /\ Len(fnDisk) > 0
    /\ fnDisk[Len(fnDisk)] = NL
    /\ IF Len(fnData.Lines) = 0
       THEN fnDisk = << NL >>
       ELSE /\ Len(SplitNL(fnDisk)) = Len(fnData.Lines)
            /\ SplitNL(fnDisk)[Len(fnData.Lines)] = RenderLine(fnData, Len(fnData.Lines))

\* a saved document of three lines whose last two are blank: the text ends
\* with the terminators of the two blank lines and nothing after them
C20_Witness ==
  /\ fnPc = "saved"
  /\ Len(fnData.Lines) = 3
  /\ IsVariable(fnData, 1)
  /\ fnData.Lines[2].Type = LineTypeBlank
  /\ fnData.Lines[3].Type = LineTypeBlank
  /\ Len(SplitNL(fnDisk)) = 3
  /\ SubSeq(fnDisk, Len(fnDisk) - 1, Len(fnDisk)) = << NL, NL >>

(***************************************************************************)
(* C21. Grouping.                                                          *)
(***************************************************************************)
\* the Variable lines of data with the key key
LinesOfKey(data, key) ==
  {p \in 1..Len(data.Lines) : IsVariable(data, p) /\ data.Lines[p].Key = key}

\* the keys of the Variable lines of data
KeysOf(data) == {data.Lines[p].Key : p \in VariableLines(data)}

\* the members of group are the lines of the set S, each once, in file order
MembersInFileOrder(group, S) ==
  /\ Len(group.Lines) = Cardinality(S)
  /\ \A i \in 1..Len(group.Lines) : group.Lines[i] \in S
  /\ \A i \in 2..Len(group.Lines) : group.Lines[i - 1] < group.Lines[i]

\* C21: in the document ParseFile returns there is one group per key of a
\* Variable line and no other; the members of the group of a key are
\* exactly the Variable lines with that key, each once and in file order,
\* wherever they are in the file, so each Variable line is a member of its
\* key's group and of no other; and groupOrder lists the keys, each once, in
\* the order of their first lines.
C21_Grouping ==
  JustLoaded =>
    /\ DOMAIN fnData.VariableGroups = KeysOf(fnData)
    /\ \A key \in DOMAIN fnData.VariableGroups :
         /\ fnData.VariableGroups[key].Key = key
         /\ MembersInFileOrder(fnData.VariableGroups[key], LinesOfKey(fnData, key))
    /\ Len(fnData.GroupOrder) = Cardinality(KeysOf(fnData))
    /\ \A g \in 1..Len(fnData.GroupOrder) : fnData.GroupOrder[g] \in KeysOf(fnData)
    /\ \A g \in 2..Len(fnData.GroupOrder) :
         fnData.VariableGroups[fnData.GroupOrder[g - 1]].Lines[1]
           < fnData.VariableGroups[fnData.GroupOrder[g]].Lines[1]

\* a document just loaded whose first and third lines are the two members of
\* one group, in that order, with the only member of another group between
\* them; groupOrder names the group of the first line first
C21_Witness ==
  /\ JustLoaded
  /\ Len(fnData.Lines) = 3
  /\ Len(fnData.GroupOrder) = 2
  /\ fnData.VariableGroups[fnData.GroupOrder[1]].Lines = << 1, 3 >>
  /\ fnData.VariableGroups[fnData.GroupOrder[2]].Lines = << 2 >>

(***************************************************************************)
(* C25. The text written for a line whose status is flipped.               *)
(***************************************************************************)
\* s without its character at position i, and without the next one too when
\* that is a space
WithoutMarkerAt(s, i) ==
  SubSeq(s, 1, i - 1)
    \o From(s, IF i < Len(s) /\ s[i + 1] = Space THEN i + 2 ELSE i + 1)

\* s with "# " put in after its first n characters
WithMarkerAfter(s, n) == SubSeq(s, 1, n) \o << Hash, Space >> \o From(s, n + 1)

\* the number of spaces and tabs s starts with
LeadingBlanks(s) ==
  Min({n \in 0..Len(s) : n = Len(s) \/ s[n + 1] \notin BlankChars})

\* what there must be in the file for a line read as s: flipped to enabled,
\* flipped to disabled, or left as it is
FlippedText(s, toEnabled, toDisabled) ==
  IF toEnabled THEN WithoutMarkerAt(s, Min({i \in 1..Len(s) : s[i] = Hash}))
  ELSE IF toDisabled THEN WithMarkerAfter(s, LeadingBlanks(s))
  ELSE s

\* C25: in every saved file, a Variable line that was read disabled and is
\* written enabled is its original text without the first "#" and without
\* the one space right after it, when there is one: what is before the "#"
\* and the rest are kept. A Variable line that was read enabled and is
\* written disabled is its original leading spaces and tabs, then "# ", then
\* the rest of its original text.
C25_FlipRule ==
  fnPc = "saved" =>
    \A p \in VariableLines(fnData) :
      SplitNL(fnDisk)[p] =
        FlippedText(fnData.Lines[p].OriginalContent,
                    ShouldBeEnabled(fnData, p) /\ ~IsEnabled(fnData, p),
                    ~ShouldBeEnabled(fnData, p) /\ IsEnabled(fnData, p))

\* a saved file in which an indented enabled line was disabled, "# " put in
\* after its two spaces, and an indented disabled line was enabled, the
\* space before its marker kept
C25_Witness ==
  /\ fnPc = "saved" /\ fnEdited
  /\ Len(fnData.Lines) >= 2
  /\ fnData.Lines[1].OriginalContent = << " ", " ", "B", "=", "x" >>
  /\ fnData.Lines[2].OriginalContent = << " ", "#", "B", "=", "y" >>
  /\ SplitNL(fnDisk)[1] = << " ", " ", "#", " ", "B", "=", "x" >>
  /\ SplitNL(fnDisk)[2] = << " ", "B", "=", "y" >>

\* a saved file in which a line read with two spaces after its marker was
\* enabled: one of the two spaces is left
C25_WitnessTwoSpaces ==
  /\ fnPc = "saved" /\ fnEdited
  /\ \E p \in VariableLines(fnData) :
       /\ fnData.Lines[p].OriginalContent = << "#", " ", " ", "A", "=", "7" >>
       /\ SplitNL(fnDisk)[p] = << " ", "A", "=", "7" >>

(***************************************************************************)
(* C26. The value of an unquoted assignment.                               *)
(***************************************************************************)
\* the text of a Variable line after its "="
AfterEq(line) == From(line, IndexOf(line, Eq) + 1)

\* the text after "=" holds an unquoted value
Unquoted(rest) ==
  \/ TrimLeft(rest, WhiteSpace) = << >>
  \/ TrimLeft(rest, WhiteSpace)[1] \notin {SQuote, DQuote}

\* the positions of the text after "=" that hold a "#" preceded by a space
\* or a tab
HashAfterBlank(rest) ==
  {i \in 2..Len(rest) : rest[i] = Hash /\ rest[i - 1] \in BlankChars}

\* the text after "=" up to its end or to the first of the positions hits,
\* without the white space at both ends
UpToComment(rest, hits) ==
  TrimSpace(IF hits # {} THEN SubSeq(rest, 1, Min(hits) - 1) ELSE rest)

\* the first character after "=" that is not white space is a "#"
HashLeads(rest) ==
  /\ TrimLeft(rest, WhiteSpace) # << >>
  /\ TrimLeft(rest, WhiteSpace)[1] = Hash

\* C26: the value of every Variable line with an unquoted value is the text
\* after "=", without leading white space, up to the end of the line or to
\* the first "#" that has a space or a tab before it, without trailing
\* white space; also when that "#" is the first character after "=" that is
\* not white space, the value then being empty.
C26_UnquotedValue ==
  JustLoaded =>
    \A p \in VariableLines(fnData) :
      \/ ~Unquoted(AfterEq(fnData.Lines[p].OriginalContent))
      \/ fnData.Lines[p].Value =
           UpToComment(AfterEq(fnData.Lines[p].OriginalContent),
                       HashAfterBlank(AfterEq(fnData.Lines[p].OriginalContent)))

\* the same for the lines in which a character other than "#" comes first
\* after "=" and its white space
UnquotedValueUnlessHashLeads ==
  JustLoaded =>
    \A p \in VariableLines(fnData) :
      \/ ~Unquoted(AfterEq(fnData.Lines[p].OriginalContent))
      \/ HashLeads(AfterEq(fnData.Lines[p].OriginalContent))
      \/ fnData.Lines[p].Value =
           UpToComment(AfterEq(fnData.Lines[p].OriginalContent),
                       HashAfterBlank(AfterEq(fnData.Lines[p].OriginalContent)))

\* what is loaded for the line "A= #n": the value "#n"
HashLeadsValue ==
  /\ JustLoaded
  /\ \E p \in VariableLines(fnData) :
       /\ fnData.Lines[p].OriginalContent = << "A", "=", " ", "#", "n" >>
       /\ fnData.Lines[p].Value = << "#", "n" >>

(***************************************************************************)
(* C22. The choice of keep.                                                *)
(***************************************************************************)
\* C22: the answer keep to the conflict prompt clears the prompt and its
\* pending action and changes neither the document nor the modified flag
\* nor the file; it starts no command but one more WatchFileCmd, so that a
\* notification of the watcher, whose goroutine, timer and blocked sends
\* are as they were, has a receiver.
C22_KeepKeepsEdits ==
  [][ReloadPromptKeep =>
       /\ ~showReloadPrompt' /\ ~pendingReloadAction'
       /\ parsedData' = parsedData /\ modified' = modified
       /\ disk' = disk /\ bak' = bak
       /\ tasks' = tasks /\ inbox' = inbox
       /\ watchCmds' = watchCmds + 1
       /\ wpc' = wpc /\ timer' = timer /\ senders' = senders]_vars

\* right after the answer keep: no prompt, the session modified, its
\* document different from the file another process wrote, and two
\* WatchFileCmd commands waiting for the watcher
C22_Witness ==
  /\ statusMessage = StatusKept
  /\ ~showReloadPrompt /\ ~pendingReloadAction
  /\ modified
  /\ writes = 1 /\ disk \in ExternalTexts
  /\ parsedData \notin {ParseFile(text).data : text \in StartTexts \cup ExternalTexts}
  /\ watchCmds = 2 /\ wpc = "loop"

\* after the answer keep (two WatchFileCmd commands were started since the
\* last notification was delivered, which only keep does) and the second
\* write of another process, the conflict prompt is shown again
C22_PromptAgain ==
  /\ writes = 2 /\ keys = 2
  /\ modified /\ showReloadPrompt /\ pendingReloadAction
  /\ watchCmds = 2 /\ wpc = "loop"
  /\ inbox = EmptyBag /\ senders = 0 /\ timer = 0

(***************************************************************************)
(* C23. The choice of reload.                                              *)
(***************************************************************************)
\* C23: the answer reload to the conflict prompt clears the prompt and
\* sends confirmedReloadMsg; Update, on that message, clears the modified
\* flag and the prompt and starts a reload command; the command, when the
\* file can be opened and parsed, reports the parse of the content the file
\* has when the command reads it; and Update, on that report, makes the
\* reported document the document of the session, whole, whatever the
\* document was, and leaves the session unmodified.
C23_ReloadReplaces ==
  [][/\ (ReloadPromptReload /\ pendingReloadAction) =>
          /\ ~showReloadPrompt' /\ ~pendingReloadAction'
          /\ inbox' = Put(inbox, ConfirmedReloadMsg)
     /\ HandleConfirmedReload =>
          /\ ~modified' /\ ~showReloadPrompt'
          /\ tasks' = Put(tasks, ReloadTask)
     /\ \A t \in BagToSet(tasks) :
          (ReloadParse(t, TRUE) /\ ~ParseFile(disk).err) =>
            inbox' = Put(inbox, FileReloadedMsg(ParseFile(disk).data))
     /\ \A m \in BagToSet(inbox) :
          HandleFileReloaded(m) => parsedData' = m.data /\ ~modified']_vars

\* the reload the user chose has read the file another process wrote: its
\* report, the parse of that file, waits for Update, the prompt is gone and
\* the session, whose document still has the user's edit, is unmodified
C23_Witness ==
  /\ statusMessage = StatusReloading
  /\ ~showReloadPrompt /\ ~modified
  /\ writes = 1 /\ disk = TextOne
  /\ inbox = SetToBag({FileReloadedMsg(ParseFile(TextOne).data)})
  /\ parsedData \notin {ParseFile(text).data : text \in StartTexts \cup ExternalTexts}

\* the document of the session is the parse of the second file another
\* process wrote, reloaded after the edit of the user, and nothing of the
\* edit or of the file of the start is left in it
C23_Reloaded ==
  /\ statusMessage = StatusReloaded
  /\ writes = 2 /\ keys = 2
  /\ disk = TextOne /\ parsedData = ParseFile(TextOne).data
  /\ ~showReloadPrompt /\ ~modified
  /\ tasks = EmptyBag /\ inbox = EmptyBag

(***************************************************************************)
(* C24. A watch that cannot be established.                                *)
(***************************************************************************)
\* w.watcher.Add(filePath) failed: the goroutine is about to report it, or
\* has reported it and returned (the goroutine returns for no other reason
\* while the watcher is not cancelled)
AddFailed == wpc = "sendErr" \/ (wpc = "stopped" /\ ~ctxCancelled)

\* the file is not watched because the watch could not be established:
\* watcher.New() or w.watcher.Add(filePath) returned an error
WatchNotEstablished == wpc = "exit" \/ AddFailed

\* C24: when the watch of the file cannot be established, the program goes
\* on: it has not exited, and the session is one in which Update is called,
\* until the user quits.
C24_WatchFailureNotFatal == WatchNotEstablished => Started

\* the same for a failure of w.watcher.Add(filePath) alone: the program has
\* not exited, and the session has not ended unless the user quit
AddFailureNotFatal == AddFailed => Started /\ (quitting => ctxCancelled)

\* w.watcher.Add(filePath) failed, which the status line showed, and the
\* user then edited the document and saved it: the file holds the edited
\* document and the session is unmodified
AddFailedThenSaved ==
  /\ wpc = "stopped" /\ ~ctxCancelled
  /\ writes = 0 /\ keys = 2
  /\ disk \notin StartTexts /\ disk = SaveContent(parsedData)
  /\ statusMessage = StatusSaved /\ ~modified

\* watcher.New() failed and main has exited: no key is taken
ExitedAtStart == wpc = "exit" /\ ~ENABLED KeySpace /\ ~ENABLED KeyCtrlS

(***************************************************************************)
(* C27. The debounce.                                                      *)
(***************************************************************************)
\* the step is a write to the file that the watcher goroutine, in its loop,
\* sees as a Write event
WriteSeen ==
  /\ wpc = "loop"
  /\ \/ \E text \in ExternalTexts : ExternalWrite(text)
     \/ \E t \in BagToSet(tasks) : SaveWrite(t, TRUE)

\* C27: every Write event the goroutine sees starts the whole window anew
\* and emits nothing; the time left of the window goes down by the ticks of
\* the clock, one at a time, and by nothing else; and a notification is
\* emitted only by the tick that ends the window, one notification, after
\* which no timer runs.  So the events of a burst, each within the window
\* of the one before, are followed by one notification, emitted when
\* DebounceTicks ticks have passed since the last of them.
C27_TrailingEdgeDebounce ==
  [][/\ WriteSeen => timer' = DebounceTicks /\ senders' = senders
     /\ (timer' # timer /\ ~WriteSeen) => timer > 0 /\ timer' = timer - 1
     /\ senders' > senders =>
          timer = 1 /\ timer' = 0 /\ senders' = senders + 1]_vars

\* two writes of other processes and one notification, which has not been
\* received yet: no timer runs, no message was sent to Update and no command
\* was started, and the document is the one of the start
C27_Witness ==
  /\ writes = 2 /\ keys = 0
  /\ wpc = "loop" /\ timer = 0 /\ senders = 1 /\ watchCmds = 1
  /\ inbox = EmptyBag /\ tasks = EmptyBag
  /\ statusMessage = NoStatus
  /\ disk = TextOne
  /\ parsedData \in {ParseFile(text).data : text \in StartTexts}

(***************************************************************************)
(* C28. Every write is notified.                                           *)
(***************************************************************************)
\* a write the watcher saw has not been processed by Update yet: the timer
\* runs, or a callback is blocked in its send, or FileChangedMsg is in the
\* inbox
NotificationPending ==
  timer > 0 \/ senders > 0 \/ BagIn(FileChangedMsg, inbox)

\* C28: under the scheduling of SpecLive, whenever the goroutine of the
\* watcher, in its loop, has seen a write to the file, whether or not a
\* conflict prompt is shown, there is a later state in which no write is
\* left to notify, Update having processed FileChangedMsg after the write,
\* unless the watcher is cancelled or the program has died of a panic.
C28_EveryWriteNotified ==
  (wpc = "loop" /\ timer > 0) ~> (~NotificationPending \/ ctxCancelled \/ panicked)

\* a write of another process seen by the watcher while the conflict prompt
\* of an earlier write is shown, the notification of which was processed
C28_Witness ==
  /\ wpc = "loop" /\ timer > 0
  /\ showReloadPrompt /\ modified
  /\ writes = 2
  /\ senders = 0 /\ inbox = EmptyBag /\ watchCmds = 1
  /\ ~ctxCancelled /\ ~panicked

(***************************************************************************)
(* C29. Notifications while the conflict prompt is shown.                  *)
(***************************************************************************)
\* C29: a notification processed while the conflict prompt is shown and the
\* session is modified leaves the one prompt and its one pending action as
\* they are and starts nothing and stores nothing; one answer of the user,
\* reload or keep, clears the prompt and the pending action, and the answer
\* reload sends one confirmedReloadMsg however many notifications came; and
\* a reload command reports what the file holds when the command reads it.
C29_NotificationsDoNotQueue ==
  [][/\ (HandleFileChanged /\ showReloadPrompt /\ pendingReloadAction /\ modified) =>
          /\ showReloadPrompt' /\ pendingReloadAction'
          /\ inbox' = Drop(inbox, FileChangedMsg)
          /\ tasks' = tasks
          /\ parsedData' = parsedData /\ modified'
     /\ UserChooses => ~showReloadPrompt' /\ ~pendingReloadAction'
     /\ ReloadPromptReload => inbox' \in {inbox, Put(inbox, ConfirmedReloadMsg)}
     /\ ReloadPromptKeep => inbox' = inbox /\ tasks' = tasks
     /\ \A t \in BagToSet(tasks) :
          ReloadParse(t, TRUE) => inbox' = Put(inbox, ReloadResult(ParseFile(disk)))]_vars

\* the conflict prompt is shown and the notification of a second write of
\* another process is in the inbox
C29_Witness ==
  /\ showReloadPrompt /\ pendingReloadAction /\ modified
  /\ writes = 2
  /\ inbox = SetToBag({FileChangedMsg}) /\ tasks = EmptyBag

\* two writes of other processes were notified while the session was
\* modified, the second when nothing was left of the first, and the user
\* answered reload once: no prompt is shown, nothing is pending, and the
\* one reload that ran reported the file of the second write
C29_OneChoice ==
  /\ writes = 2 /\ keys = 2
  /\ disk = TextOne
  /\ ~showReloadPrompt /\ ~pendingReloadAction
  /\ statusMessage = StatusReloading
  /\ inbox = SetToBag({FileReloadedMsg(ParseFile(TextOne).data)})
  /\ tasks = EmptyBag /\ timer = 0 /\ senders = 0


(***************************************************************************)
(* C30. Quit after save.                                                   *)
(***************************************************************************)
\* C30: while a quit after save is pending, the only saveSuccessMsg that is
\* processed, and so the only one the program quits on, is that of the save
\* the answer yes started; and an error processed then leaves the program
\* running, cancels the pending quit and leaves the modified flag as it is.
C30_QuitsOnItsOwnSave ==
  [][\A m \in BagToSet(inbox) :
       /\ (HandleSaveSuccess(m) /\ quittingAfterSave) => m = QuitSaveSuccessMsg
       /\ (HandleErrMsg(m) /\ quittingAfterSave) =>
            ~quitting' /\ ~quittingAfterSave' /\ modified' = modified]_vars

\* the part of C30 that the code keeps: an error processed while a quit
\* after save is pending cancels the quit and leaves the modified flag as
\* it is
QuitCancelledByError ==
  [][\A m \in BagToSet(inbox) :
       (HandleErrMsg(m) /\ quittingAfterSave) =>
          ~quitting' /\ ~quittingAfterSave' /\ modified' = modified]_vars

\* the program has quit on the saveSuccessMsg of a save started with ctrl+s
\* while the save that the answer yes started has not written the file
QuitBeforeItsSave ==
  /\ quitting /\ statusMessage = StatusSavedQuitting
  /\ \E t \in BagToSet(tasks) : t.kind = "save" /\ t.by = "y" /\ t.pc = "backup"

\* the save that the answer yes started has failed and the program has
\* not quit
QuitSaveFailed ==
  /\ keys >= 3 /\ ~quitting /\ ~quittingAfterSave /\ modified
  /\ ~showQuitPrompt
  /\ statusMessage = StatusError("failed to write to file")


(***************************************************************************)
(* C31. Quitting and the save commands that are running.                   *)
(***************************************************************************)
\* a save command that was started has not yet written the file or failed
SaveRunning == \E t \in BagToSet(tasks) : t.kind = "save"

\* C31: when tea.Quit has been returned no save command is still running:
\* every save that was started has reported its success or its error.
C31_QuitWaitsForSaves == quitting => ~SaveRunning

\* the user answered no to the quit prompt while the save started with
\* ctrl+s had not yet made its backup: the program quits with that save
\* running
QuitWhileSaving ==
  /\ quitting /\ keys = 4 /\ modified
  /\ statusMessage = NoStatus
  /\ \E t \in BagToSet(tasks) : t.kind = "save" /\ t.by = "ctrl+s" /\ t.pc = "backup"


(***************************************************************************)
(* C32. What a save command reads of the document.                         *)
(***************************************************************************)
\* the documents with the lines and groups of pd, whatever their selection
Selections(pd) ==
  {[pd EXCEPT !.VariableGroups = g] :
     g \in {f \in [DOMAIN pd.VariableGroups ->
                     [Key : {pd.VariableGroups[k].Key : k \in DOMAIN pd.VariableGroups},
                      Lines : {pd.VariableGroups[k].Lines : k \in DOMAIN pd.VariableGroups},
                      IsSelected : BOOLEAN,
                      SelectedLineIdx : 0..(Len(pd.Lines) - 1)]] :
              \A k \in DOMAIN pd.VariableGroups :
                /\ f[k].Key = pd.VariableGroups[k].Key
                /\ f[k].Lines = pd.VariableGroups[k].Lines
                /\ f[k].SelectedLineIdx < Len(f[k].Lines)}}

\* the written lines out hold at most one enabled member of every group
AtMostOneEnabled(data, out) ==
  \A key \in DOMAIN data.VariableGroups :
    \A i, j \in 1..Len(data.VariableGroups[key].Lines) :
      (/\ WrittenEnabled(out[data.VariableGroups[key].Lines[i]], key)
       /\ WrittenEnabled(out[data.VariableGroups[key].Lines[j]], key)) => i = j

\* C32: the file a save command writes is what saveFile makes of one
\* document, the lines and groups of the session with one selection for
\* every line, and so holds at most one enabled member of every group,
\* whatever keys were handled while the command ran.
C32_SaveWritesOneDocument ==
  [][\A t \in BagToSet(tasks) :
       SaveWrite(t, TRUE) =>
         /\ \E d \in Selections(TaskDoc(t)) : disk' = SaveContent(d)
         /\ AtMostOneEnabled(TaskDoc(t), SplitNL(disk'))]_vars

\* a save wrote both members of the group A enabled: the first was rendered
\* while it was the selected one, the second after the user had chosen it
TwoEnabledWritten ==
  /\ disk = <<"A", "=", "1", "\n", "A", "=", "2", "\n">>
  /\ parsedData.VariableGroups[<<"A">>].IsSelected
  /\ parsedData.VariableGroups[<<"A">>].SelectedLineIdx = 1
  /\ BagIn(SaveSuccessMsg, inbox)


(***************************************************************************)
(* C33. An edit made while a save command runs.                            *)
(***************************************************************************)
\* the file is not what saveFile makes of the document of the session
FileBehindDocument == disk # SaveContent(parsedData)

\* C33: when the saveSuccessMsg of the one save that is outstanding is
\* processed and the file that save wrote is not what saveFile makes of the
\* document, the selection having changed since the save was started, the
\* session is still marked modified afterwards.
C33_EditDuringSaveStaysModified ==
  [][\A m \in BagToSet(inbox) :
       (HandleSaveSuccess(m) /\ InFlight = 1 /\ modified /\ FileBehindDocument)
       => modified']_vars

\* the group was switched off, saved, and switched on again while the save
\* ran: the file holds the group switched off, the session its first member
\* enabled, and the session is not marked modified
EditLostFromModified ==
  /\ keys = 3 /\ ~modified
  /\ statusMessage = StatusSaved
  /\ tasks = EmptyBag /\ inbox = EmptyBag
  /\ disk = <<"#", " ", "A", "=", "1", "\n", "#", "A", "=", "2", "\n">>
  /\ parsedData.VariableGroups[<<"A">>].IsSelected


(***************************************************************************)
(* C34. An edit made while a reload command runs.                          *)
(***************************************************************************)
\* C34: when fileReloadedMsg is processed in a session that is modified by
\* the one key pressed so far, an edit made after the reload was started
\* with no answer of the user to any prompt, the message does not replace
\* the document and clear the modified flag.
C34_ReloadKeepsLaterEdit ==
  [][\A m \in BagToSet(inbox) :
       (HandleFileReloaded(m) /\ modified /\ keys = 1)
       => (parsedData' = parsedData \/ modified')]_vars


(***************************************************************************)
(* C35. A reload the user chose, which fails.                              *)
(***************************************************************************)
\* the document of the session is not one that ParseFile returns for a
\* file of the model: its selection was edited
DocumentEdited ==
  parsedData \notin {ParseFile(text).data : text \in StartTexts \cup ExternalTexts}

\* C35: when the error of the reload the user chose at the conflict prompt
\* is processed, the status still being that of the choice, no other
\* command outstanding and the edits still in the document, the session is
\* marked modified afterwards.
C35_FailedReloadStaysModified ==
  [][(/\ HandleErrMsg(ReloadFailedMsg)
      /\ statusMessage = StatusReloading
      /\ InFlight = 1
      /\ DocumentEdited)
     => modified']_vars



(***************************************************************************)
(* C36. The channels of the watcher after its goroutine returned.          *)
(***************************************************************************)
\* C36: once the goroutine of Watcher.Start has returned and closed
\* w.Events, no callback of the debounce timer is sending on that channel.
C36_NoSendOnClosedChannel == wpc = "stopped" => senders = 0

\* the user quit a clean session while the debounce timer of a write was
\* running: the goroutine returned, the timer fired, and its send on the
\* closed channel ended the process with a panic
SendOnClosedPanicked ==
  /\ panicked /\ quitting /\ ctxCancelled
  /\ wpc = "stopped" /\ senders = 1
  /\ keys = 1 /\ writes = 1
  /\ cursor = 0
  /\ statusMessage = NoStatus


(***************************************************************************)
(* C37. The cursor and the row list.                                       *)
(***************************************************************************)
\* the number of rows of the session
RowCount == Len(buildListItems(parsedData))

\* C37: whenever the session has a row the cursor is on one of its rows,
\* and the copy key reads a row of the list: it never indexes the list
\* outside its bounds, which is a panic.
C37_CursorOnARow ==
  [][/\ RowCount' >= 1 => (0 <= cursor' /\ cursor' < RowCount')
     /\ \A ok \in BOOLEAN :
          KeyCopy(ok) => (0 <= cursor /\ cursor < RowCount /\ ~panicked')]_vars

\* the part of C37 that the code keeps: with at least one row the cursor is
\* on a row
CursorOnARowIfAny == RowCount >= 1 => (0 <= cursor /\ cursor < RowCount)

\* the copy key on a file with no variable line: the row list is empty and
\* listItems[m.cursor] is out of range
CopyPanickedOnEmptyList ==
  /\ panicked /\ keys = 1 /\ writes = 0
  /\ RowCount = 0 /\ cursor = 0
  /\ disk = TextNote



(***************************************************************************)
(* C38. The groups of a document.                                          *)
(***************************************************************************)
\* C38: in every state, after the parse of the file, after any keys and
\* after a reload, every group of the document has at least one member and
\* its selectedIndex is the index of one of its members.
C38_GroupsWellFormed ==
  \A key \in DOMAIN fnData.VariableGroups :
    /\ Len(fnData.VariableGroups[key].Lines) >= 1
    /\ 0 <= fnData.VariableGroups[key].SelectedLineIdx
    /\ fnData.VariableGroups[key].SelectedLineIdx < Len(fnData.VariableGroups[key].Lines)

\* a document that was reloaded and then edited: a group of three members
\* is switched off and remembers its last member
C38_Witness ==
  /\ fnRound = 1 /\ fnPc = "editing" /\ fnEdited
  /\ \E key \in DOMAIN fnData.VariableGroups :
       /\ Len(fnData.VariableGroups[key].Lines) = 3
       /\ ~fnData.VariableGroups[key].IsSelected
       /\ fnData.VariableGroups[key].SelectedLineIdx = 2


(***************************************************************************)
(* C39. The selection after a save and a reload.                           *)
(***************************************************************************)
\* the groups of new are those of old, in the same order
SameGroups(old, new) == new.GroupOrder = old.GroupOrder

\* the group key is selected, or not, in both documents, with the same
\* selectedIndex
SameSelection(old, new, key) ==
  /\ new.VariableGroups[key].IsSelected = old.VariableGroups[key].IsSelected
  /\ new.VariableGroups[key].SelectedLineIdx = old.VariableGroups[key].SelectedLineIdx

\* C39: the document that the reload of a saved file returns has the groups
\* of the document that was saved, every one of them selected or not as it
\* was and with the selectedIndex it had, the groups that are not selected
\* included.
C39_SelectionSurvivesReload ==
  [][(FnReload /\ fnPc' = "editing") =>
       /\ SameGroups(fnData, fnData')
       /\ \A key \in DOMAIN fnData.VariableGroups : SameSelection(fnData, fnData', key)]_vars

\* the part of C39 that the code keeps: the groups are the same, a group
\* that was selected is selected with the same selectedIndex, and a group
\* that was not selected is not selected
SelectedGroupsSurviveReload ==
  [][(FnReload /\ fnPc' = "editing") =>
       /\ SameGroups(fnData, fnData')
       /\ \A key \in DOMAIN fnData.VariableGroups :
            IF fnData.VariableGroups[key].IsSelected
            THEN SameSelection(fnData, fnData', key)
            ELSE /\ ~fnData'.VariableGroups[key].IsSelected
                 /\ fnData'.VariableGroups[key].SelectedLineIdx = 0]_vars



(***************************************************************************)
(* C40. A flip and the flip back, with a reload between the two saves.     *)
(***************************************************************************)
\* line ptr of the file the program was started on (first, its lines as
\* parsed) was flipped by the first save, data being the document reloaded
\* from what that save wrote, and the second save flips it back
FlippedAndBack(first, data, ptr) ==
  /\ first[ptr].Type = LineTypeVariable
  /\ IsVariable(data, ptr)
  /\ first[ptr].IsCommentedOut # data.Lines[ptr].IsCommentedOut
  /\ ShouldBeEnabled(data, ptr) <=> ~first[ptr].IsCommentedOut

\* every line of first that was flipped and flipped back has in out, the
\* lines of the second save, the text it had in first
FlipBackRestores(first, data, out) ==
  \A ptr \in 1..Len(first) :
    out[ptr] = first[ptr].OriginalContent \/ ~FlippedAndBack(first, data, ptr)

\* C40: a Variable line that one save flipped, enabled to disabled or
\* disabled to enabled, and that a second save flipped back, the document
\* having been reloaded in between, has after the second save the text it
\* had when the program was started, byte for byte.
C40_FlipBackRestoresText ==
  (fnPc = "saved" /\ fnRound = 1)
  => FlipBackRestores(ParseFile(fnFirst).data.Lines, fnData, ScanLines(fnDisk))

\* the lines of first for which the round trip has to hold by what the
\* code does: the line was enabled, or disabled with exactly one blank
\* after the marker
OneBlankAfterMarker(s) ==
  LET t == TrimLeft(s, BlankChars)
  IN /\ Len(t) >= 3
     /\ t[1] = Hash /\ t[2] = Space
     /\ t[3] \notin BlankChars

\* the part of C40 that the code keeps
FlipBackRestoresEnabledAndOneBlank ==
  (fnPc = "saved" /\ fnRound = 1)
  => LET first == ParseFile(fnFirst).data.Lines
         out == ScanLines(fnDisk)
     IN \A ptr \in 1..Len(first) :
          \/ out[ptr] = first[ptr].OriginalContent
          \/ ~FlippedAndBack(first, fnData, ptr)
          \/ (first[ptr].IsCommentedOut /\ ~OneBlankAfterMarker(first[ptr].OriginalContent))

\* an enabled line was disabled by the first save and enabled again by the
\* second, and has its first text
EnabledLineRestored ==
  /\ fnPc = "saved" /\ fnRound = 1
  /\ fnFirst = <<"A", "=", "1", "\n", "#", "A", "=", "2", "\n">>
  /\ fnSrc = <<"#", " ", "A", "=", "1", "\n", "#", "A", "=", "2", "\n">>
  /\ fnDisk = fnFirst
====
